---- MODULE Spec2Model ----
(***************************************************************************)
(* Model of slurm-submit (python-submit/src/slurm_submit): rotating file   *)
(* backups (host side and the emitted inline shell function), job          *)
(* resolution (default and Dalton token parsing), and the execution of     *)
(* the generated sbatch scripts.                                           *)
(***************************************************************************)
EXTENDS Integers, Sequences, FiniteSets, TLC

(***************************************************************************)
(* Bounds of the model.                                                    *)
(***************************************************************************)
MaxN == 3            \* max_backups is drawn from 1..MaxN (and WideN)
WideN == 10          \* a two-digit max_backups, so that zero padding shows
MaxWrites == 5       \* re-creations of the target in the sequential runs
NumProcs == 2            \* concurrent invocations / array tasks
MaxCalls == 2        \* host-side calls per process in the concurrent runs
ConcN == 2           \* max_backups of the concurrent runs is in 1..ConcN
ConcWrites == 2      \* re-creations of the target in the concurrent runs
MaxArgv == 4         \* words on the command line of the exec workload
MaxJobs == 2         \* JobRecords of a Dalton JobSet written to a manifest
NumSubs == 2         \* submissions whose tasks run at the same time
MaxTasks == 2        \* tasks of one array submission

MaxArgs == 3         \* positional tokens / manifest lines of the default workload
MaxTokens == 4       \* tokens of a Dalton command line
MaxPairTokens == 4   \* tokens of a Dirac or Turbomole command line

MaxStatus == 2       \* a command of a generated script exits with 0..MaxStatus

Procs == 1..NumProcs

VARIABLES
    \* ---- backup rotation (backup.py) ----
    max_backups,     \* config.max_backups
    use_backup_dir,  \* config.use_backup_dir
    target,          \* content version of target_path, 0 = no such file
    files,           \* existing numbered siblings: name -> content version
    dir_made,        \* whether the backup subdirectory exists
    lock_path,       \* inode at <backup_base>.lock, 0 = no such file
    flocks,          \* inode -> process holding the exclusive flock, 0 = free
    lock_fd,         \* process -> inode its lock descriptor refers to, 0 = none
    pc,              \* process -> position in backup_existing_file / the shell function
    idx,             \* process -> loop index of the rotation loop
    warned,          \* process -> "Could not acquire lock" was logged by its last call
    calls,           \* process -> number of calls started
    completed,       \* number of calls that ran the whole rotate-and-rename sequence
    writes,          \* number of times the target has been (re)created
    active,          \* the processes that take part in the run
    limits,          \* [calls, writes]: how often a process calls / the target is re-created
    initial          \* [files, target]: the files on disk when the run began

VARIABLES
    \* ---- job resolution (manifest.py, cli.py, modules/dalton.py) ----
    workload,        \* "default" (resolve_inputs) or "dalton" (build_jobs override)
    manifest_file,   \* config.manifest_file is set
    input_extensions,\* metadata.input_extensions of the default workload
    tokens,          \* positional_args, or the lines of the manifest file
    jpc,             \* position of the invocation
    pos,             \* index of the next token of the Dalton loop
    current_dal, current_dal_has_mol, sticky_pot, seg_start,
    next_restart, pending_global_restart, pending_pot_before_dal,
    jobs,            \* DaltonModule._jobs
    inputs,          \* the resolved JobRecords
    array_mode,      \* config.array_mode
    outcome,         \* "none", "ok", "usage_error", "assertion_error"
    exec_manifest,   \* the lines of the manifest file the script reads
    array_last,      \* N of "#SBATCH --array=1-N", 0 = no array directive
    task_input       \* array task id -> the line it read, Unread before

jobVars == <<workload, manifest_file, input_extensions, tokens, jpc, pos, current_dal,
             current_dal_has_mol, sticky_pot, seg_start, next_restart,
             pending_global_restart, pending_pot_before_dal, jobs, inputs,
             array_mode, outcome, exec_manifest, array_last, task_input>>

VARIABLES
    module,          \* the workload module whose script runs
    script_array,    \* config.array_mode of the generated script
    create_archive,  \* config.create_archive
    script,          \* the commands of the generated script, in order
    sp,              \* the command the shell is at, 0 = no script running
    last_status,     \* $?
    run_status,      \* exit status of the workload's run command, Unset before
    code_var,        \* $dalton_exit_code / $dirac_exit_code / $EXIT_CODE
    exit_status,     \* exit status of the script, Unset while it runs
    failed           \* positions of the commands that exited non-zero

scriptVars == <<module, script_array, create_archive, script, sp, last_status,
                run_status, code_var, exit_status, failed>>

VARIABLES
    \* ---- the exec workload's command line (args.py, modules/exec_mod.py, cli.py) ----
    args,            \* the command line after the program name
    positional_args, \* ParsedArgs.positional_args
    remaining_args,  \* ParsedArgs.remaining_args
    command,         \* ExecModule._command
    xpc,             \* position of the exec invocation
    exec_inputs,     \* the inputs resolve_inputs returned
    exec_array_mode, \* the array flag resolve_inputs returned
    exec_outcome,    \* "none", "ok", "usage_error", "value_error"
    \* ---- override detection and body choice (module_base.py, sbatch.py) ----
    overrides,       \* the optional capabilities the workload's class defines
    ctx_array_mode,  \* ctx.config.array_mode
    detected,        \* capability -> its has_custom_* property, << >> before they are read
    body,            \* the body generate_sbatch_script emitted, "none" before
    \* ---- delivery (sbatch.py) ----
    export_file,     \* config.export_file, "" = not set
    dpc,             \* position of submit_job
    disk,            \* the file at the export path: [content, mode], NoFile if absent
    sbatch_calls,    \* number of times subprocess.run(["sbatch"]) was called
    sbatch_stdin,    \* what the submission command read, in order of the calls
    returncode,      \* result.returncode of the last call, Unset before
    returned         \* value submit_job returned, Unset before, Raised on an exception

VARIABLES
    \* ---- one invocation from main() to its exit status (cli.py) ----
    has_set_inputs,  \* hasattr(module, "set_inputs")
    dir_exists,      \* os.path.isdir(output_path)
    custom_manifest, \* module.has_custom_create_exec_manifest
    user_manifest,   \* config.manifest_file is set
    stage,           \* index of the step _main_inner is at
    passed,          \* the steps among parse, validate, resolve that returned
    main_array_mode, \* config.array_mode once the inputs are resolved
    effects,         \* what the invocation did to the outside, in order
    main_outcome,    \* "none", "returned", "usage_error", "assertion_error", "help"
    exit_code        \* exit status of the process, Unset while it runs

VARIABLES
    \* ---- the submitted tasks while they run on the cluster (sbatch.py, scratch.py) ----
    tenv,            \* per task: its submission, SLURM_JOB_ID, SLURM_ARRAY_TASK_ID
    tmanifest,       \* per submission: the lines of its exec manifest
    tpc,             \* per task: "pending", "started", "running", "cleaned", "exited"
    scratch_fs,      \* the directories that exist below scratch_base
    log_file         \* per task: the file its standard output is redirected to

taskVars == <<tenv, tmanifest, tpc, scratch_fs, log_file>>

mainVars == <<has_set_inputs, dir_exists, custom_manifest, user_manifest, stage,
              passed, main_array_mode, effects, main_outcome, exit_code>>

cliVars == <<mainVars, taskVars, args, positional_args, remaining_args, command, xpc, exec_inputs,
             exec_array_mode, exec_outcome, overrides, ctx_array_mode, detected, body,
             export_file, dpc, disk, sbatch_calls, sbatch_stdin, returncode, returned>>

backupVars == <<max_backups, use_backup_dir, target, files, dir_made, lock_path,
                flocks, lock_fd, pc, idx, warned, calls, completed, writes, active,
                limits, initial>>

vars == <<backupVars, jobVars, scriptVars, cliVars>>

(***************************************************************************)
(* Paths and tokens.  A path is a record: its stem, its suffix, whether    *)
(* the text carries surrounding whitespace, and whether it is absolute.    *)
(***************************************************************************)
NoPath == [name |-> "", ext |-> "", pad |-> FALSE, abs |-> FALSE]   \* ""

Tok(n, e) == [name |-> n, ext |-> e, pad |-> FALSE, abs |-> FALSE]

Padded(t) == [t EXCEPT !.pad = TRUE]

\* str.strip()
Strip(line) == [line EXCEPT !.pad = FALSE]

\* bool(s): the empty string is false
NonEmpty(t) == t.name # ""

\* str.endswith(suffix)
EndsWith(t, suffix) == NonEmpty(t) /\ t.ext = suffix

\* the files that do not exist on disk
Missing == {"m"}

\* the .dal files whose content holds a line matching ^BASIS|^Atomtypes=
WithGeometry == {"a"}

\* core.validate_file_exists: os.path.isfile(filepath)
IsFile(t) == NonEmpty(t) /\ ~t.pad /\ t.name \notin Missing

\* core.validate_file_extension
ExtensionOk(t, allowed) ==
    allowed = << >> \/ \E k \in 1..Len(allowed) : EndsWith(t, allowed[k])

\* core.to_absolute_path: os.path.realpath
to_absolute_path(t) == [t EXCEPT !.abs = TRUE]

\* dalton._dal_contains_geometry
dal_contains_geometry(dal) == dal.name \in WithGeometry

BoundedSeq(S, n) == UNION {[1..k -> S] : k \in 0..n}

DefaultArgs == {Tok("a", ".inp"), Tok("b", ".inp"), Tok("c", ".txt"), Tok("m", ".inp")}

\* lines of a user-supplied manifest: paths, a padded path, a blank line
ManifestLines == DefaultArgs \cup {Padded(Tok("a", ".inp")), NoPath}

DaltonTokens ==
    {Tok("a", ".dal"), Tok("b", ".dal"), Tok("x", ".mol"), Tok("y", ".mol"),
     Tok("m", ".mol"), Tok("p", ".pot"), Tok("q", ".pot"),
     Tok("r", ".tar.gz"), Tok("s", ".tar.gz"), Tok("z", ".txt")}

\* a JobRecord of Dalton: the four tab-separated fields of _append_job
Job(dal, mol, pot, rst) == <<dal, mol, pot, rst>>

JobsIdle ==
    /\ workload = "default"
    /\ manifest_file = FALSE
    /\ input_extensions = << >>
    /\ tokens = << >>
    /\ jpc = "done"
    /\ pos = 1
    /\ current_dal = NoPath
    /\ current_dal_has_mol = FALSE
    /\ sticky_pot = NoPath
    /\ seg_start = 0
    /\ next_restart = NoPath
    /\ pending_global_restart = NoPath
    /\ pending_pot_before_dal = NoPath
    /\ jobs = << >>
    /\ inputs = << >>
    /\ array_mode = FALSE
    /\ outcome = "none"
    /\ exec_manifest = << >>
    /\ array_last = 0
    /\ task_input = << >>

Unset == -1

ScriptIdle ==
    /\ module = "none"
    /\ script_array = FALSE
    /\ create_archive = FALSE
    /\ script = << >>
    /\ sp = 0
    /\ last_status = 0
    /\ run_status = Unset
    /\ code_var = Unset
    /\ exit_status = Unset
    /\ failed = {}

Raised == -2

NoFile == [content |-> << >>, mode |-> 0]

ExecIdle ==
    /\ args = << >>
    /\ positional_args = << >>
    /\ remaining_args = << >>
    /\ command = << >>
    /\ xpc = "done"
    /\ exec_inputs = << >>
    /\ exec_array_mode = FALSE
    /\ exec_outcome = "none"

AssemblyIdle ==
    /\ overrides = {}
    /\ ctx_array_mode = FALSE
    /\ detected = << >>
    /\ body = "none"

DeliveryIdle ==
    /\ export_file = ""
    /\ dpc = "done"
    /\ disk = NoFile
    /\ sbatch_calls = 0
    /\ sbatch_stdin = << >>
    /\ returncode = Unset
    /\ returned = Unset

MainIdle ==
    /\ has_set_inputs = FALSE
    /\ dir_exists = FALSE
    /\ custom_manifest = FALSE
    /\ user_manifest = FALSE
    /\ stage = 0
    /\ passed = {}
    /\ main_array_mode = FALSE
    /\ effects = << >>
    /\ main_outcome = "none"
    /\ exit_code = Unset

TasksIdle ==
    /\ tenv = << >>
    /\ tmanifest = << >>
    /\ tpc = << >>
    /\ scratch_fs = {}
    /\ log_file = << >>

CliIdle == ExecIdle /\ AssemblyIdle /\ DeliveryIdle /\ MainIdle /\ TasksIdle

(***************************************************************************)
(* File names.  f"{backup_base}.{idx:0{width}d}", width = len(str(N)).     *)
(***************************************************************************)
RECURSIVE Digits(_)
Digits(n) == IF n < 10 THEN <<n>> ELSE Digits(n \div 10) \o <<n % 10>>

RECURSIVE ZeroPad(_, _)
ZeroPad(d, w) == IF Len(d) < w THEN ZeroPad(<<0>> \o d, w) ELSE d

Width(n) == Len(Digits(n))

\* host side: backup_base as resolved by backup_existing_file
HostBase(useDir) == IF useDir THEN "bak/target" ELSE "target"

\* str(use_backup_dir) as the f-string of _emit_backup_dir_block renders it
PyStr(b) == IF b THEN "True" ELSE "False"

\* inline: backup_base as resolved by the emitted block,
\*   if [[ "{use_backup_dir}" == true ]]; then <subdirectory> else <sibling> fi
InlineBase(useDir) ==
    IF useDir
    THEN IF PyStr(useDir) = "true" THEN "bak/target" ELSE "target"
    ELSE "target"

BackupName(base, i, w) == [base |-> base, num |-> ZeroPad(Digits(i), w)]

Exists(fs, name) == name \in DOMAIN fs

Remove(fs, name) == [n \in DOMAIN fs \ {name} |-> fs[n]]

\* os.rename / mv -f: dst is replaced atomically
Rename(fs, src, dst) ==
    [n \in (DOMAIN fs \ {src}) \cup {dst} |-> IF n = dst THEN fs[src] ELSE fs[n]]

NoFiles == [n \in {} |-> 0]

(***************************************************************************)
(* One whole rotation as a function of the files: _rotate_backups followed *)
(* by the rename of the target, as a single uninterrupted call performs    *)
(* them.                                                                   *)
(***************************************************************************)
RECURSIVE RotateFrom(_, _, _, _)
RotateFrom(fs, base, w, i) ==
    IF i < 0 THEN fs
    ELSE LET src == BackupName(base, i, w)
             dst == BackupName(base, i + 1, w)
         IN RotateFrom(IF Exists(fs, src) THEN Rename(fs, src, dst) ELSE fs,
                       base, w, i - 1)

rotate_backups(fs, base, n) ==
    LET w == Width(n)
        last == BackupName(base, n, w)
    IN RotateFrom(IF Exists(fs, last) THEN Remove(fs, last) ELSE fs, base, w, n - 1)

\* the files after one uninterrupted call on an existing target of version tgt
RotateOnce(fs, tgt, base, n) ==
    LET r == rotate_backups(fs, base, n)
        zero == BackupName(base, 0, Width(n))
    IN [name \in DOMAIN r \cup {zero} |-> IF name = zero THEN tgt ELSE r[name]]

(***************************************************************************)
(* Lock file inodes.                                                       *)
(***************************************************************************)
Inodes == 1..(NumProcs + 1)

InUse(i) == lock_path = i \/ \E p \in Procs : lock_fd[p] = i

FreshInode == CHOOSE i \in Inodes : ~InUse(i) /\ \A j \in Inodes : ~InUse(j) => i <= j

nonBackupVars == <<jobVars, scriptVars, cliVars>>

(***************************************************************************)
(* The environment: the output file is written again (by a job run).       *)
(***************************************************************************)
WriteTarget ==
    /\ target = 0
    /\ writes < limits.writes
    /\ target' = writes + 1
    /\ writes' = writes + 1
    /\ UNCHANGED <<max_backups, use_backup_dir, files, dir_made, lock_path, flocks,
                   lock_fd, pc, idx, warned, calls, completed, active, limits, initial>>
    /\ UNCHANGED nonBackupVars

(***************************************************************************)
(* backup_existing_file (host side), one action per step of the call.      *)
(***************************************************************************)
Base == HostBase(use_backup_dir)
LastName == BackupName(Base, max_backups, Width(max_backups))
SrcName(i) == BackupName(Base, i, Width(max_backups))
\* mutation of DstName: the destination index is off by one
DstName_OffByOne(i) == BackupName(Base, i + 2, Width(max_backups))

DstName(i) == BackupName(Base, i + 1, Width(max_backups))
ZeroName == BackupName(Base, 0, Width(max_backups))

Raise_ProceedsUnlocked(p) ==
    /\ pc' = [pc EXCEPT ![p] = "last_test"]
    /\ warned' = [warned EXCEPT ![p] = TRUE]

\* an OSError inside the inner try: the finally clause runs, then the warning
Raise(p) ==
    /\ pc' = [pc EXCEPT ![p] = "close"]
    /\ warned' = [warned EXCEPT ![p] = TRUE]

\* the target as the file system shows it: 0 = absent, Directory = present
\* but not a regular file, a positive number = a regular file's content
Directory == -1

\* os.path.isfile(target_path)
TargetIsFile(tgt) == tgt > 0

\* the target_path arguments the calls of a run pass
PathChoices == IF "paths" \in DOMAIN limits THEN limits.paths ELSE {"", "target"}

\* mutation of Skips: only the empty path returns early
Skips_PathOnly(target_path, tgt) == target_path = ""

\* lines 51-52: if not target_path or not os.path.isfile(target_path): return
Skips(target_path, tgt) == target_path = "" \/ ~TargetIsFile(tgt)

\* lines 51-65: the guard, and the backup directory
Call(p) ==
    /\ pc[p] = "idle"
    /\ calls[p] < limits.calls
    /\ calls' = [calls EXCEPT ![p] = @ + 1]
    /\ warned' = [warned EXCEPT ![p] = FALSE]
    /\ \E target_path \in PathChoices :
         IF Skips(target_path, target)
         THEN UNCHANGED <<pc, dir_made>>
         ELSE /\ pc' = [pc EXCEPT ![p] = "open"]
              /\ dir_made' = (dir_made \/ use_backup_dir)
    /\ UNCHANGED <<max_backups, use_backup_dir, target, files, lock_path, flocks,
                   lock_fd, idx, completed, writes, active, limits, initial>>
    /\ UNCHANGED nonBackupVars

\* line 71: os.open(lock_path, O_WRONLY | O_CREAT)
Open(p) ==
    /\ pc[p] = "open"
    /\ \/ LET ino == IF lock_path = 0 THEN FreshInode ELSE lock_path IN
            /\ lock_path' = ino
            /\ lock_fd' = [lock_fd EXCEPT ![p] = ino]
            /\ pc' = [pc EXCEPT ![p] = "flock"]
            /\ UNCHANGED warned
       \/ \* OSError from os.open: no descriptor, straight to the except clause
          /\ pc' = [pc EXCEPT ![p] = "idle"]
          /\ warned' = [warned EXCEPT ![p] = TRUE]
          /\ UNCHANGED <<lock_path, lock_fd>>
    /\ UNCHANGED <<max_backups, use_backup_dir, target, files, dir_made, flocks,
                   idx, calls, completed, writes, active, limits, initial>>
    /\ UNCHANGED nonBackupVars

\* line 73: fcntl.flock(lock_fd, LOCK_EX) blocks until the inode's lock is free
Flock(p) ==
    /\ pc[p] = "flock"
    /\ \/ /\ flocks[lock_fd[p]] = 0
          /\ flocks' = [flocks EXCEPT ![lock_fd[p]] = p]
          /\ pc' = [pc EXCEPT ![p] = "last_test"]
          /\ UNCHANGED warned
       \/ \* OSError from flock (EINTR, ENOLCK)
          /\ Raise(p)
          /\ UNCHANGED flocks
    /\ UNCHANGED <<max_backups, use_backup_dir, target, files, dir_made, lock_path,
                   lock_fd, idx, calls, completed, writes, active, limits, initial>>
    /\ UNCHANGED nonBackupVars

\* _rotate_backups lines 23-24: if os.path.exists(last)
LastTest(p) ==
    /\ pc[p] = "last_test"
    /\ IF Exists(files, LastName)
       THEN /\ pc' = [pc EXCEPT ![p] = "last_rm"]
            /\ UNCHANGED idx
       ELSE /\ pc' = [pc EXCEPT ![p] = "loop_test"]
            /\ idx' = [idx EXCEPT ![p] = max_backups - 1]
    /\ UNCHANGED <<max_backups, use_backup_dir, target, files, dir_made, lock_path,
                   flocks, lock_fd, warned, calls, completed, writes, active, limits, initial>>
    /\ UNCHANGED nonBackupVars

\* _rotate_backups line 25: os.remove(last)
LastRemove(p) ==
    /\ pc[p] = "last_rm"
    /\ IF Exists(files, LastName)
       THEN /\ files' = Remove(files, LastName)
            /\ pc' = [pc EXCEPT ![p] = "loop_test"]
            /\ idx' = [idx EXCEPT ![p] = max_backups - 1]
            /\ UNCHANGED warned
       ELSE /\ Raise(p)
            /\ UNCHANGED <<files, idx>>
    /\ UNCHANGED <<max_backups, use_backup_dir, target, dir_made, lock_path,
                   flocks, lock_fd, calls, completed, writes, active, limits, initial>>
    /\ UNCHANGED nonBackupVars

\* the loop of _rotate_backups moves on from index i
LoopNext(p, i) ==
    IF i = 0
    THEN /\ pc' = [pc EXCEPT ![p] = "mv_target"]
         /\ UNCHANGED idx
    ELSE /\ pc' = [pc EXCEPT ![p] = "loop_test"]
         /\ idx' = [idx EXCEPT ![p] = i - 1]

\* _rotate_backups lines 27-30: for idx ...: if os.path.exists(src)
LoopTest(p) ==
    /\ pc[p] = "loop_test"
    /\ IF Exists(files, SrcName(idx[p]))
       THEN /\ pc' = [pc EXCEPT ![p] = "loop_mv"]
            /\ UNCHANGED idx
       ELSE LoopNext(p, idx[p])
    /\ UNCHANGED <<max_backups, use_backup_dir, target, files, dir_made, lock_path,
                   flocks, lock_fd, warned, calls, completed, writes, active, limits, initial>>
    /\ UNCHANGED nonBackupVars

\* _rotate_backups line 31: os.rename(src, dst)
LoopRename(p) ==
    /\ pc[p] = "loop_mv"
    /\ IF Exists(files, SrcName(idx[p]))
       THEN /\ files' = Rename(files, SrcName(idx[p]), DstName(idx[p]))
            /\ LoopNext(p, idx[p])
            /\ UNCHANGED warned
       ELSE /\ Raise(p)
            /\ UNCHANGED <<files, idx>>
    /\ UNCHANGED <<max_backups, use_backup_dir, target, dir_made, lock_path,
                   flocks, lock_fd, calls, completed, writes, active, limits, initial>>
    /\ UNCHANGED nonBackupVars

\* line 75: os.rename(target_path, f"{backup_base}.{0:0{width}d}")
RenameTarget(p) ==
    /\ pc[p] = "mv_target"
    /\ IF target # 0
       THEN /\ files' = [n \in DOMAIN files \cup {ZeroName} |->
                            IF n = ZeroName THEN target ELSE files[n]]
            /\ target' = 0
            /\ pc' = [pc EXCEPT ![p] = "unlock"]
            /\ UNCHANGED warned
       ELSE /\ Raise(p)
            /\ UNCHANGED <<files, target>>
    /\ UNCHANGED <<max_backups, use_backup_dir, dir_made, lock_path, flocks,
                   lock_fd, idx, calls, completed, writes, active, limits, initial>>
    /\ UNCHANGED nonBackupVars

\* line 76: fcntl.flock(lock_fd, LOCK_UN)
Unlock(p) ==
    /\ pc[p] = "unlock"
    /\ flocks' = [i \in Inodes |-> IF flocks[i] = p THEN 0 ELSE flocks[i]]
    /\ completed' = completed + 1
    /\ pc' = [pc EXCEPT ![p] = "close"]
    /\ UNCHANGED <<max_backups, use_backup_dir, target, files, dir_made, lock_path,
                   lock_fd, idx, warned, calls, writes, active, limits, initial>>
    /\ UNCHANGED nonBackupVars

\* line 78: os.close(lock_fd); closing the descriptor drops its lock
Close(p) ==
    /\ pc[p] = "close"
    /\ flocks' = [i \in Inodes |-> IF flocks[i] = p THEN 0 ELSE flocks[i]]
    /\ lock_fd' = [lock_fd EXCEPT ![p] = 0]
    /\ pc' = [pc EXCEPT ![p] = "lk_test"]
    /\ UNCHANGED <<max_backups, use_backup_dir, target, files, dir_made, lock_path,
                   idx, warned, calls, completed, writes, active, limits, initial>>
    /\ UNCHANGED nonBackupVars

\* line 79: if os.path.exists(lock_path)
LockTest(p) ==
    /\ pc[p] = "lk_test"
    /\ pc' = [pc EXCEPT ![p] = IF lock_path # 0 THEN "lk_rm" ELSE "idle"]
    /\ UNCHANGED <<max_backups, use_backup_dir, target, files, dir_made, lock_path,
                   flocks, lock_fd, idx, warned, calls, completed, writes, active,
                   limits, initial>>
    /\ UNCHANGED nonBackupVars

LockRemove_Skipped(p) ==
    /\ pc[p] = "lk_rm"
    /\ pc' = [pc EXCEPT ![p] = "idle"]
    /\ UNCHANGED <<max_backups, use_backup_dir, target, files, dir_made, lock_path,
                   flocks, lock_fd, idx, warned, calls, completed, writes, active,
                   limits, initial>>
    /\ UNCHANGED nonBackupVars

\* line 80: os.remove(lock_path); a FileNotFoundError reaches the except clause
LockRemove(p) ==
    /\ pc[p] = "lk_rm"
    /\ pc' = [pc EXCEPT ![p] = "idle"]
    /\ IF lock_path # 0
       THEN /\ lock_path' = 0
            /\ UNCHANGED warned
       ELSE /\ warned' = [warned EXCEPT ![p] = TRUE]
            /\ UNCHANGED lock_path
    /\ UNCHANGED <<max_backups, use_backup_dir, target, files, dir_made,
                   flocks, lock_fd, idx, calls, completed, writes, active, limits, initial>>
    /\ UNCHANGED nonBackupVars


\* the siblings left by k earlier rotations of versions 1..k: index 0 is the newest
Aged(base, n, k) ==
    [name \in {BackupName(base, i, Width(n)) : i \in 0..(k - 1)} |->
        CHOOSE v \in 1..k : name = BackupName(base, k - v, Width(n))]

BackupInit(procs, ns, lim, ks, inline) ==
    /\ max_backups \in ns
    /\ use_backup_dir \in BOOLEAN
    /\ \E k \in ks :
         /\ target = (IF k = 0 THEN 0 ELSE k + 1)
         /\ files = Aged(IF inline THEN InlineBase(use_backup_dir)
                                    ELSE HostBase(use_backup_dir), max_backups, k)
    /\ initial = [files |-> files, target |-> target]
    /\ dir_made = FALSE
    /\ lock_path = 0
    /\ flocks = [i \in Inodes |-> 0]
    /\ lock_fd = [p \in Procs |-> 0]
    /\ pc = [p \in Procs |-> "idle"]
    /\ idx = [p \in Procs |-> 0]
    /\ warned = [p \in Procs |-> FALSE]
    /\ calls = [p \in Procs |-> 0]
    /\ completed = 0
    /\ writes = 0
    /\ active = procs
    /\ limits = lim
    /\ JobsIdle
    /\ ScriptIdle
    /\ CliIdle

(***************************************************************************)
(* SpecRotate: one process rotates a target that is re-created each time.  *)
(***************************************************************************)
InitRotate ==
    BackupInit({1}, (1..MaxN) \cup {WideN}, [calls |-> MaxWrites + 1, writes |-> MaxWrites],
               {0}, FALSE)

NextRotate ==
    \/ WriteTarget
    \/ \E p \in active : Call(p)
    \/ \E p \in active : Open(p)
    \/ \E p \in active : Flock(p)
    \/ \E p \in active : LastTest(p)
    \/ \E p \in active : LastRemove(p)
    \/ \E p \in active : LoopTest(p)
    \/ \E p \in active : LoopRename(p)
    \/ \E p \in active : RenameTarget(p)
    \/ \E p \in active : Unlock(p)
    \/ \E p \in active : Close(p)
    \/ \E p \in active : LockTest(p)
    \/ \E p \in active : LockRemove(p)

SpecRotate == InitRotate /\ [][NextRotate]_vars

(***************************************************************************)
(* SpecLock: several processes call backup_existing_file concurrently.     *)
(***************************************************************************)
InitLock ==
    BackupInit(Procs, 1..ConcN, [calls |-> MaxCalls, writes |-> ConcWrites], {0}, FALSE)

NextLock ==
    \/ WriteTarget
    \/ \E p \in active : Call(p)
    \/ \E p \in active : Open(p)
    \/ \E p \in active : Flock(p)
    \/ \E p \in active : LastTest(p)
    \/ \E p \in active : LastRemove(p)
    \/ \E p \in active : LoopTest(p)
    \/ \E p \in active : LoopRename(p)
    \/ \E p \in active : RenameTarget(p)
    \/ \E p \in active : Unlock(p)
    \/ \E p \in active : Close(p)
    \/ \E p \in active : LockTest(p)
    \/ \E p \in active : LockRemove(p)

SpecLock == InitLock /\ [][NextLock]_vars


(***************************************************************************)
(* backup_existing_files, the shell function emitted by                    *)
(* emit_backup_function_inline, run by an array task under set -euo        *)
(* pipefail; one action per command.                                       *)
(***************************************************************************)
ShBase == InlineBase(use_backup_dir)
ShLast == BackupName(ShBase, max_backups, Width(max_backups))
ShFrom(i) == BackupName(ShBase, i, Width(max_backups))
ShTo(i) == BackupName(ShBase, i + 1, Width(max_backups))
ShZero == BackupName(ShBase, 0, Width(max_backups))

\* a failing simple command ends the script (set -e); its descriptors are closed
ShErrExit(p) ==
    /\ pc' = [pc EXCEPT ![p] = "sh_exit"]
    /\ flocks' = [i \in Inodes |-> IF flocks[i] = p THEN 0 ELSE flocks[i]]
    /\ lock_fd' = [lock_fd EXCEPT ![p] = 0]

\* [[ -z "$target_path" || ! -f "$target_path" ]] && return 0; the directory block
ShCall(p) ==
    /\ pc[p] = "idle"
    /\ calls[p] = 0
    /\ calls' = [calls EXCEPT ![p] = 1]
    /\ IF target = 0
       THEN /\ pc' = [pc EXCEPT ![p] = "sh_done"]
            /\ UNCHANGED dir_made
       ELSE /\ pc' = [pc EXCEPT ![p] = "sh_exec"]
            /\ dir_made' = (dir_made \/ ShBase = "bak/target")
    /\ UNCHANGED <<max_backups, use_backup_dir, target, files, lock_path, flocks,
                   lock_fd, idx, warned, completed, writes, active, limits, initial>>
    /\ UNCHANGED nonBackupVars

\* exec 9>"${backup_base}.lock" || true
ShExec(p) ==
    /\ pc[p] = "sh_exec"
    /\ LET ino == IF lock_path = 0 THEN FreshInode ELSE lock_path IN
         /\ lock_path' = ino
         /\ lock_fd' = [lock_fd EXCEPT ![p] = ino]
    /\ pc' = [pc EXCEPT ![p] = "sh_flock"]
    /\ UNCHANGED <<max_backups, use_backup_dir, target, files, dir_made, flocks,
                   idx, warned, calls, completed, writes, active, limits, initial>>
    /\ UNCHANGED nonBackupVars

\* flock -w 5 9 || true: the lock is taken, or the wait times out and the
\* function goes on without it
ShFlock(p) ==
    /\ pc[p] = "sh_flock"
    /\ \/ /\ flocks[lock_fd[p]] = 0
          /\ flocks' = [flocks EXCEPT ![lock_fd[p]] = p]
          /\ UNCHANGED warned
       \/ /\ flocks[lock_fd[p]] # 0
          /\ warned' = [warned EXCEPT ![p] = TRUE]
          /\ UNCHANGED flocks
    /\ pc' = [pc EXCEPT ![p] = "sh_last_test"]
    /\ UNCHANGED <<max_backups, use_backup_dir, target, files, dir_made, lock_path,
                   lock_fd, idx, calls, completed, writes, active, limits, initial>>
    /\ UNCHANGED nonBackupVars

\* [[ -e "${backup_base}.${to}" ]] && ...
ShLastTest(p) ==
    /\ pc[p] = "sh_last_test"
    /\ IF Exists(files, ShLast)
       THEN /\ pc' = [pc EXCEPT ![p] = "sh_last_rm"]
            /\ UNCHANGED idx
       ELSE /\ pc' = [pc EXCEPT ![p] = "sh_loop_test"]
            /\ idx' = [idx EXCEPT ![p] = max_backups - 1]
    /\ UNCHANGED <<max_backups, use_backup_dir, target, files, dir_made, lock_path,
                   flocks, lock_fd, warned, calls, completed, writes, active, limits, initial>>
    /\ UNCHANGED nonBackupVars

\* ... && rm -f -- "${backup_base}.${to}"   (rm -f accepts a missing file)
ShLastRm(p) ==
    /\ pc[p] = "sh_last_rm"
    /\ files' = Remove(files, ShLast)
    /\ pc' = [pc EXCEPT ![p] = "sh_loop_test"]
    /\ idx' = [idx EXCEPT ![p] = max_backups - 1]
    /\ UNCHANGED <<max_backups, use_backup_dir, target, dir_made, lock_path, flocks,
                   lock_fd, warned, calls, completed, writes, active, limits, initial>>
    /\ UNCHANGED nonBackupVars

ShLoopNext(p, i) ==
    IF i = 0
    THEN /\ pc' = [pc EXCEPT ![p] = "sh_mv_target"]
         /\ UNCHANGED idx
    ELSE /\ pc' = [pc EXCEPT ![p] = "sh_loop_test"]
         /\ idx' = [idx EXCEPT ![p] = i - 1]

\* for ((i = N - 1; i >= 0; i--)): if [[ -e "${backup_base}.${from}" ]]
ShLoopTest(p) ==
    /\ pc[p] = "sh_loop_test"
    /\ IF Exists(files, ShFrom(idx[p]))
       THEN /\ pc' = [pc EXCEPT ![p] = "sh_loop_mv"]
            /\ UNCHANGED idx
       ELSE ShLoopNext(p, idx[p])
    /\ UNCHANGED <<max_backups, use_backup_dir, target, files, dir_made, lock_path,
                   flocks, lock_fd, warned, calls, completed, writes, active, limits, initial>>
    /\ UNCHANGED nonBackupVars

\* mv -f -- "${backup_base}.${from}" "${backup_base}.${to}"
ShLoopMv(p) ==
    /\ pc[p] = "sh_loop_mv"
    /\ IF Exists(files, ShFrom(idx[p]))
       THEN /\ files' = Rename(files, ShFrom(idx[p]), ShTo(idx[p]))
            /\ ShLoopNext(p, idx[p])
            /\ UNCHANGED <<flocks, lock_fd>>
       ELSE /\ ShErrExit(p)
            /\ UNCHANGED <<files, idx>>
    /\ UNCHANGED <<max_backups, use_backup_dir, target, dir_made, lock_path,
                   warned, calls, completed, writes, active, limits, initial>>
    /\ UNCHANGED nonBackupVars

\* printf -v to "%0${width}d" 0; mv -f -- "$target_path" "${backup_base}.${to}"
ShMvTarget(p) ==
    /\ pc[p] = "sh_mv_target"
    /\ IF target # 0
       THEN /\ files' = [n \in DOMAIN files \cup {ShZero} |->
                            IF n = ShZero THEN target ELSE files[n]]
            /\ target' = 0
            /\ pc' = [pc EXCEPT ![p] = "sh_unlock"]
            /\ UNCHANGED <<flocks, lock_fd>>
       ELSE /\ ShErrExit(p)
            /\ UNCHANGED <<files, target>>
    /\ UNCHANGED <<max_backups, use_backup_dir, dir_made, lock_path, idx,
                   warned, calls, completed, writes, active, limits, initial>>
    /\ UNCHANGED nonBackupVars

\* flock -u 9 || true
ShUnlock(p) ==
    /\ pc[p] = "sh_unlock"
    /\ flocks' = [i \in Inodes |-> IF flocks[i] = p THEN 0 ELSE flocks[i]]
    /\ completed' = completed + 1
    /\ pc' = [pc EXCEPT ![p] = "sh_rm_lock"]
    /\ UNCHANGED <<max_backups, use_backup_dir, target, files, dir_made, lock_path,
                   lock_fd, idx, warned, calls, writes, active, limits, initial>>
    /\ UNCHANGED nonBackupVars

\* rm -f "${backup_base}.lock" || true
ShRmLock(p) ==
    /\ pc[p] = "sh_rm_lock"
    /\ lock_path' = 0
    /\ pc' = [pc EXCEPT ![p] = "sh_done"]
    /\ UNCHANGED <<max_backups, use_backup_dir, target, files, dir_made, flocks,
                   lock_fd, idx, warned, calls, completed, writes, active, limits, initial>>
    /\ UNCHANGED nonBackupVars

(***************************************************************************)
(* SpecInline: the array tasks of one generated script call the emitted    *)
(* function on the same output file, which exists when they start.         *)
(***************************************************************************)
InitInline ==
    BackupInit(Procs, 1..ConcN, [calls |-> 1, writes |-> 0], 1..(ConcN + 1), TRUE)

NextInline ==
    \/ \E p \in active : ShCall(p)
    \/ \E p \in active : ShExec(p)
    \/ \E p \in active : ShFlock(p)
    \/ \E p \in active : ShLastTest(p)
    \/ \E p \in active : ShLastRm(p)
    \/ \E p \in active : ShLoopTest(p)
    \/ \E p \in active : ShLoopMv(p)
    \/ \E p \in active : ShMvTarget(p)
    \/ \E p \in active : ShUnlock(p)
    \/ \E p \in active : ShRmLock(p)

SpecInline == InitInline /\ [][NextInline]_vars

(***************************************************************************)
(* SpecEquiv: one call of backup_existing_file, or one call of the emitted *)
(* backup_existing_files, by a single process on the same inputs: any set  *)
(* of numbered files next to the target and in the backup subdirectory,    *)
(* the target present or not, either setting of use_backup_dir.            *)
(***************************************************************************)
EquivNames(n) ==
    {BackupName(b, i, Width(n)) : b \in {"target", "bak/target"}, i \in 0..n}

\* a content that tells the files of the initial state apart
Content(name) ==
    (IF name.base = "target" THEN 10 ELSE 20) + Len(name.num) + name.num[Len(name.num)]

TargetContent == 99

InitEquiv ==
    /\ max_backups \in 1..ConcN
    /\ use_backup_dir \in BOOLEAN
    /\ target \in {0, TargetContent}
    /\ \E S \in SUBSET EquivNames(max_backups) : files = [name \in S |-> Content(name)]
    /\ initial = [files |-> files, target |-> target]
    /\ dir_made = FALSE
    /\ lock_path = 0
    /\ flocks = [i \in Inodes |-> 0]
    /\ lock_fd = [p \in Procs |-> 0]
    /\ pc = [p \in Procs |-> "idle"]
    /\ idx = [p \in Procs |-> 0]
    /\ warned = [p \in Procs |-> FALSE]
    /\ calls = [p \in Procs |-> 0]
    /\ completed = 0
    /\ writes = 0
    /\ active = {1}
    /\ limits = [calls |-> 1, writes |-> 0]
    /\ JobsIdle
    /\ ScriptIdle
    /\ CliIdle

NextEquiv ==
    \/ \E p \in active : Call(p)
    \/ \E p \in active : Open(p)
    \/ \E p \in active : Flock(p)
    \/ \E p \in active : LastTest(p)
    \/ \E p \in active : LastRemove(p)
    \/ \E p \in active : LoopTest(p)
    \/ \E p \in active : LoopRename(p)
    \/ \E p \in active : RenameTarget(p)
    \/ \E p \in active : Unlock(p)
    \/ \E p \in active : Close(p)
    \/ \E p \in active : LockTest(p)
    \/ \E p \in active : LockRemove(p)
    \/ \E p \in active : ShCall(p)
    \/ \E p \in active : ShExec(p)
    \/ \E p \in active : ShFlock(p)
    \/ \E p \in active : ShLastTest(p)
    \/ \E p \in active : ShLastRm(p)
    \/ \E p \in active : ShLoopTest(p)
    \/ \E p \in active : ShLoopMv(p)
    \/ \E p \in active : ShMvTarget(p)
    \/ \E p \in active : ShUnlock(p)
    \/ \E p \in active : ShRmLock(p)

SpecEquiv == InitEquiv /\ [][NextEquiv]_vars

(***************************************************************************)
(* SpecHold: process 1 calls backup_existing_file once on an existing      *)
(* target; the lock file may already exist with its lock held by another   *)
(* process (2) that never releases it.  The calling process keeps running: *)
(* every step of the call that can be taken is taken eventually; an        *)
(* OSError from flock is an event of the environment and is not forced.    *)
(***************************************************************************)
Holder == 2

InitHold ==
    /\ max_backups \in 1..ConcN
    /\ use_backup_dir \in BOOLEAN
    /\ \E k \in 0..(max_backups + 1) :
         /\ target = k + 1
         /\ files = Aged(HostBase(use_backup_dir), max_backups, k)
    /\ initial = [files |-> files, target |-> target]
    /\ dir_made = FALSE
    /\ \E held \in BOOLEAN :
         /\ lock_path = (IF held THEN 1 ELSE 0)
         /\ flocks = [i \in Inodes |-> IF held /\ i = 1 THEN Holder ELSE 0]
         /\ lock_fd = [p \in Procs |-> IF held /\ p = Holder THEN 1 ELSE 0]
    /\ pc = [p \in Procs |-> "idle"]
    /\ idx = [p \in Procs |-> 0]
    /\ warned = [p \in Procs |-> FALSE]
    /\ calls = [p \in Procs |-> 0]
    /\ completed = 0
    /\ writes = 0
    /\ active = {1}
    /\ limits = [calls |-> 1, writes |-> 0]
    /\ JobsIdle
    /\ ScriptIdle
    /\ CliIdle

NextHold ==
    \/ \E p \in active : Call(p)
    \/ \E p \in active : Open(p)
    \/ \E p \in active : Flock(p)
    \/ \E p \in active : LastTest(p)
    \/ \E p \in active : LastRemove(p)
    \/ \E p \in active : LoopTest(p)
    \/ \E p \in active : LoopRename(p)
    \/ \E p \in active : RenameTarget(p)
    \/ \E p \in active : Unlock(p)
    \/ \E p \in active : Close(p)
    \/ \E p \in active : LockTest(p)
    \/ \E p \in active : LockRemove(p)

\* the steps of the call that the running process takes by itself
HoldProgress(p) ==
    \/ Call(p)
    \/ Open(p)
    \/ Flock(p) /\ pc'[p] = "last_test"
    \/ LastTest(p)
    \/ LastRemove(p)
    \/ LoopTest(p)
    \/ LoopRename(p)
    \/ RenameTarget(p)
    \/ Unlock(p)
    \/ Close(p)
    \/ LockTest(p)
    \/ LockRemove(p)

SpecHold == InitHold /\ [][NextHold]_vars /\ WF_vars(HoldProgress(1))

(***************************************************************************)
(* SpecNoop: repeated host-side calls by one process, on a run whose       *)
(* target is absent, a directory or a regular file and whose calls pass    *)
(* the empty path, the target's path, or either; numbered files may exist  *)
(* next to the target and in the backup subdirectory before the first      *)
(* call.                                                                   *)
(***************************************************************************)
InitNoop ==
    /\ max_backups \in 1..ConcN
    /\ use_backup_dir \in BOOLEAN
    /\ target \in {0, Directory, TargetContent}
    /\ \E S \in SUBSET EquivNames(max_backups) : files = [name \in S |-> Content(name)]
    /\ initial = [files |-> files, target |-> target]
    /\ dir_made = FALSE
    /\ lock_path = 0
    /\ flocks = [i \in Inodes |-> 0]
    /\ lock_fd = [p \in Procs |-> 0]
    /\ pc = [p \in Procs |-> "idle"]
    /\ idx = [p \in Procs |-> 0]
    /\ warned = [p \in Procs |-> FALSE]
    /\ calls = [p \in Procs |-> 0]
    /\ completed = 0
    /\ writes = 0
    /\ active = {1}
    /\ \E ps \in {{""}, {"target"}, {"", "target"}} :
         limits = [calls |-> MaxCalls + 1, writes |-> 0, paths |-> ps]
    /\ JobsIdle
    /\ ScriptIdle
    /\ CliIdle

NextNoop ==
    \/ \E p \in active : Call(p)
    \/ \E p \in active : Open(p)
    \/ \E p \in active : Flock(p)
    \/ \E p \in active : LastTest(p)
    \/ \E p \in active : LastRemove(p)
    \/ \E p \in active : LoopTest(p)
    \/ \E p \in active : LoopRename(p)
    \/ \E p \in active : RenameTarget(p)
    \/ \E p \in active : Unlock(p)
    \/ \E p \in active : Close(p)
    \/ \E p \in active : LockTest(p)
    \/ \E p \in active : LockRemove(p)

SpecNoop == InitNoop /\ [][NextNoop]_vars

(***************************************************************************)
(* Job resolution.                                                         *)
(***************************************************************************)
BackupIdle ==
    /\ max_backups = 1
    /\ use_backup_dir = FALSE
    /\ target = 0
    /\ files = NoFiles
    /\ initial = [files |-> NoFiles, target |-> 0]
    /\ dir_made = FALSE
    /\ lock_path = 0
    /\ flocks = [i \in Inodes |-> 0]
    /\ lock_fd = [p \in Procs |-> 0]
    /\ pc = [p \in Procs |-> "idle"]
    /\ idx = [p \in Procs |-> 0]
    /\ warned = [p \in Procs |-> FALSE]
    /\ calls = [p \in Procs |-> 0]
    /\ completed = 0
    /\ writes = 0
    /\ active = {}
    /\ limits = [calls |-> 0, writes |-> 0]

nonJobVars == <<backupVars, scriptVars, cliVars>>

\* the result of a builder that raised UsageError
Failed == <<"die_usage">>

dalVars == <<current_dal, current_dal_has_mol, sticky_pot, seg_start, next_restart,
             pending_global_restart, pending_pot_before_dal>>

\* die_usage: UsageError leaves the invocation; no JobSet is returned
DieUsage ==
    /\ outcome' = "usage_error"
    /\ jpc' = "done"

(* ---- manifest.resolve_inputs, the default resolution -------------------- *)

\* lines 43-53: the inputs list
ResolvedInputs(mf, toks) ==
    IF mf THEN SelectSeq([k \in 1..Len(toks) |-> Strip(toks[k])], NonEmpty)
    ELSE toks

\* mutation of ResolvedArrayMode: the flag is derived from the count alone
ResolvedArrayMode_ByCount(mf, toks) ==
    Len(ResolvedInputs(mf, toks)) > 1

\* mutation of ResolvedArrayMode: a single token already gives array mode
ResolvedArrayMode_AtLeastOne(mf, toks) ==
    IF mf THEN TRUE ELSE Len(toks) >= 1

\* lines 47-53: the array_mode flag
ResolvedArrayMode(mf, toks) ==
    IF mf THEN TRUE ELSE Len(toks) > 1

\* lines 58-61: every input is a regular file with an allowed extension
InputsValid(ins, allowed) ==
    \A k \in 1..Len(ins) : IsFile(ins[k]) /\ ExtensionOk(ins[k], allowed)

\* cli._resolve_job_inputs with resolve_inputs (no build_jobs override)
ResolveInputs ==
    /\ jpc = "start"
    /\ workload = "default"
    /\ IF ~manifest_file /\ Len(tokens) = 0
       THEN /\ DieUsage                       \* "No input files specified"
            /\ UNCHANGED <<inputs, array_mode>>
       ELSE LET ins == ResolvedInputs(manifest_file, tokens) IN
            IF ~InputsValid(ins, input_extensions)
            THEN /\ DieUsage
                 /\ UNCHANGED <<inputs, array_mode>>
            ELSE /\ inputs' = ins
                 /\ array_mode' = ResolvedArrayMode(manifest_file, tokens)
                 /\ IF Len(ins) >= 1           \* cli.py line 185
                    THEN /\ outcome' = "ok"
                         /\ jpc' = "resolved"
                    ELSE /\ outcome' = "assertion_error"
                         /\ jpc' = "done"
    /\ UNCHANGED <<workload, manifest_file, input_extensions, tokens, pos, dalVars,
                   jobs, exec_manifest, array_last, task_input>>
    /\ UNCHANGED nonJobVars

(* ---- DaltonModule.build_jobs / _build_from_tokens ---------------------- *)

\* build_jobs lines 218-224 and the assertions of _build_from_tokens
DaltonStart ==
    /\ jpc = "start"
    /\ workload = "dalton"
    /\ jobs' = << >>
    /\ IF Len(tokens) > 0
       THEN /\ jpc' = "tokens"
            /\ UNCHANGED outcome
       ELSE /\ jpc' = "done"
            /\ outcome' = "assertion_error"
    /\ UNCHANGED <<workload, manifest_file, input_extensions, tokens, pos, dalVars,
                   inputs, array_mode, exec_manifest, array_last, task_input>>
    /\ UNCHANGED nonJobVars

AtToken(suffix) ==
    /\ jpc = "tokens"
    /\ pos <= Len(tokens)
    /\ EndsWith(tokens[pos], suffix)

StickyFromPending_Ignored(pending) == NoPath

\* _handle_dal_token lines 606-608: the sticky pot a new .dal starts with
StickyFromPending(pending) == IF NonEmpty(pending) THEN pending ELSE NoPath

\* _handle_dal_token, and lines 555-556
HandleDalToken ==
    /\ AtToken(".dal")
    /\ IF ~IsFile(tokens[pos])
       THEN /\ DieUsage
            /\ UNCHANGED <<pos, dalVars>>
       ELSE /\ current_dal' = to_absolute_path(tokens[pos])
            /\ current_dal_has_mol' = FALSE
            /\ sticky_pot' = StickyFromPending(pending_pot_before_dal)
            /\ seg_start' = Len(jobs)
            /\ pending_pot_before_dal' = NoPath
            /\ next_restart' = NoPath
            /\ pos' = pos + 1
            /\ UNCHANGED <<pending_global_restart, jpc, outcome>>
    /\ UNCHANGED <<workload, manifest_file, input_extensions, tokens, jobs, inputs,
                   array_mode, exec_manifest, array_last, task_input>>
    /\ UNCHANGED nonJobVars

\* mutation of retroactive_pot: the pot also replaces a modifier already set
retroactive_pot_overwrite(js, pot, start_idx) ==
    [k \in 1..Len(js) |->
        IF k > start_idx /\ Len(js[k]) >= 3
        THEN [js[k] EXCEPT ![3] = pot]
        ELSE js[k]]

\* _retroactive_pot: jobs[start_idx:] that have an empty third field get pot
retroactive_pot(js, pot, start_idx) ==
    [k \in 1..Len(js) |->
        IF k > start_idx /\ Len(js[k]) >= 3 /\ ~NonEmpty(js[k][3])
        THEN [js[k] EXCEPT ![3] = pot]
        ELSE js[k]]

\* _handle_pot_token
HandlePotToken ==
    /\ AtToken(".pot")
    /\ IF ~IsFile(tokens[pos])
       THEN /\ DieUsage
            /\ UNCHANGED <<pos, jobs, sticky_pot, pending_pot_before_dal>>
       ELSE LET abs_pot == to_absolute_path(tokens[pos]) IN
            /\ IF ~NonEmpty(current_dal)
               THEN /\ pending_pot_before_dal' = abs_pot
                    /\ sticky_pot' = NoPath
                    /\ UNCHANGED jobs
               ELSE /\ jobs' = retroactive_pot(jobs, abs_pot, seg_start)
                    /\ sticky_pot' = abs_pot
                    /\ UNCHANGED pending_pot_before_dal
            /\ pos' = pos + 1
            /\ UNCHANGED <<jpc, outcome>>
    /\ UNCHANGED <<current_dal, current_dal_has_mol, seg_start, next_restart,
                   pending_global_restart>>
    /\ UNCHANGED <<workload, manifest_file, input_extensions, tokens, inputs,
                   array_mode, exec_manifest, array_last, task_input>>
    /\ UNCHANGED nonJobVars

\* lines 561-567: a restart archive
HandleRestartToken ==
    /\ AtToken(".tar.gz")
    /\ IF ~IsFile(tokens[pos])
       THEN /\ DieUsage
            /\ UNCHANGED <<pos, next_restart, pending_global_restart>>
       ELSE LET abs_rst == to_absolute_path(tokens[pos]) IN
            /\ IF NonEmpty(current_dal)
               THEN /\ next_restart' = abs_rst
                    /\ UNCHANGED pending_global_restart
               ELSE /\ pending_global_restart' = abs_rst
                    /\ UNCHANGED next_restart
            /\ pos' = pos + 1
            /\ UNCHANGED <<jpc, outcome>>
    /\ UNCHANGED <<current_dal, current_dal_has_mol, sticky_pot, seg_start,
                   pending_pot_before_dal>>
    /\ UNCHANGED <<workload, manifest_file, input_extensions, tokens, jobs, inputs,
                   array_mode, exec_manifest, array_last, task_input>>
    /\ UNCHANGED nonJobVars

\* mutation of RestartToUse: the global pending restart is taken first
RestartToUse_GlobalFirst(nxt, glob) ==
    IF NonEmpty(glob) THEN glob ELSE IF NonEmpty(nxt) THEN nxt ELSE NoPath

\* lines 573-579: the restart a new job takes
RestartToUse(nxt, glob) ==
    IF NonEmpty(nxt) THEN nxt ELSE IF NonEmpty(glob) THEN glob ELSE NoPath

\* lines 568-581: a .mol token closes one job
HandleMolToken ==
    /\ AtToken(".mol")
    /\ IF ~IsFile(tokens[pos]) \/ ~NonEmpty(current_dal)
       THEN /\ DieUsage
            /\ UNCHANGED <<pos, jobs, current_dal_has_mol, next_restart,
                           pending_global_restart>>
       ELSE LET abs_mol == to_absolute_path(tokens[pos]) IN
            /\ jobs' = Append(jobs, Job(current_dal, abs_mol, sticky_pot,
                                        RestartToUse(next_restart, pending_global_restart)))
            /\ IF NonEmpty(next_restart)
               THEN /\ next_restart' = NoPath
                    /\ UNCHANGED pending_global_restart
               ELSE /\ pending_global_restart' = NoPath
                    /\ UNCHANGED next_restart
            /\ current_dal_has_mol' = TRUE
            /\ pos' = pos + 1
            /\ UNCHANGED <<jpc, outcome>>
    /\ UNCHANGED <<current_dal, sticky_pot, seg_start, pending_pot_before_dal>>
    /\ UNCHANGED <<workload, manifest_file, input_extensions, tokens, inputs,
                   array_mode, exec_manifest, array_last, task_input>>
    /\ UNCHANGED nonJobVars

\* lines 582-585: any other token
HandleOtherToken ==
    /\ jpc = "tokens"
    /\ pos <= Len(tokens)
    /\ \A sfx \in {".dal", ".pot", ".tar.gz", ".mol"} : ~EndsWith(tokens[pos], sfx)
    /\ DieUsage
    /\ UNCHANGED <<workload, manifest_file, input_extensions, tokens, pos, dalVars,
                   jobs, inputs, array_mode, exec_manifest, array_last, task_input>>
    /\ UNCHANGED nonJobVars

\* lines 587-590 with _finalize_dal_without_mol: the jobs after the loop,
\* or Failed when the trailing .dal has neither .mol nor geometry

FinalJobs ==
    IF NonEmpty(current_dal) /\ ~current_dal_has_mol
    THEN IF dal_contains_geometry(current_dal)
         THEN Append(jobs, Job(current_dal, NoPath, sticky_pot,
                               RestartToUse(next_restart, pending_global_restart)))
         ELSE Failed
    ELSE jobs

\* build_jobs line 230
DaltonArrayMode(js) == Len(js) > 1

\* the end of the loop, _finalize_dal_without_mol, and build_jobs lines 226-231
DaltonFinish ==
    /\ jpc = "tokens"
    /\ pos > Len(tokens)
    /\ IF FinalJobs = Failed
       THEN /\ DieUsage
            /\ UNCHANGED <<jobs, inputs, array_mode>>
       ELSE /\ jobs' = FinalJobs
            /\ IF Len(FinalJobs) < 1
               THEN /\ DieUsage                 \* "No jobs assembled"
                    /\ UNCHANGED <<inputs, array_mode>>
               ELSE /\ inputs' = FinalJobs
                    /\ array_mode' = DaltonArrayMode(FinalJobs)
                    /\ outcome' = "ok"
                    /\ jpc' = "resolved"
    /\ UNCHANGED <<workload, manifest_file, input_extensions, tokens, pos, dalVars,
                   exec_manifest, array_last, task_input>>
    /\ UNCHANGED nonJobVars

(* ---- DiracModule / TurbomoleModule build_jobs --------------------------- *)

DiracTokens ==
    {Tok("a", ".inp"), Tok("b", ".inp"), Tok("x", ".mol"), Tok("m", ".mol"),
     Tok("z", ".txt")}

TurbomoleTokens ==
    {Tok("a", "control"), Tok("b", "control"), Tok("a", "coord"), Tok("m", "coord"),
     Tok("z", ".txt")}

\* a manifest line of a pair workload is the list of its tab-separated
\* fields; the empty list is a blank line
CommentLine == <<Tok("#", "")>>

DiracLines ==
    {<<Tok("a", ".inp"), Tok("x", ".mol")>>, <<Tok("b", ".inp"), Tok("x", ".mol")>>,
     <<Tok("a", ".inp"), Tok("m", ".mol")>>, <<Tok("a", ".inp")>>,
     <<Tok("x", ".mol"), Tok("a", ".inp")>>, << >>, CommentLine}

TurbomoleLines ==
    {<<Tok("a", "control"), Tok("a", "coord")>>, <<Tok("b", "control"), Tok("a", "coord")>>,
     <<Tok("a", "control"), Tok("m", "coord")>>, <<Tok("a", "control")>>,
     << >>, CommentLine}

\* parts[k] if len(parts) > k else ""
Field(line, k) == IF Len(line) >= k THEN line[k] ELSE NoPath

\* not line.strip() or line.strip().startswith("#")
Skipped(line) == Len(line) = 0 \/ line[1].name = "#"

Kept(lines) == SelectSeq(lines, LAMBDA l : ~Skipped(l))

\* one (inp, mol) pair of DiracModule._build_from_tokens, lines 467-473
DiracPairOk(inp, mol) ==
    /\ IsFile(inp)
    /\ IsFile(mol)
    /\ EndsWith(inp, ".inp")
    /\ EndsWith(mol, ".mol")

\* mutation of dirac_build_from_tokens: no check of the parity; the loop
\* pairs what it can and the trailing token is left out
dirac_build_from_tokens_no_parity(toks) ==
    IF Len(toks) < 2 THEN Failed
    ELSE IF \E i \in 1..(Len(toks) \div 2) : ~DiracPairOk(toks[2 * i - 1], toks[2 * i])
    THEN Failed
    ELSE [i \in 1..(Len(toks) \div 2) |->
             <<to_absolute_path(toks[2 * i - 1]), to_absolute_path(toks[2 * i])>>]

\* DiracModule._build_from_tokens: the jobs, or Failed
dirac_build_from_tokens(toks) ==
    IF Len(toks) < 2 THEN Failed
    ELSE IF Len(toks) % 2 # 0 THEN Failed
    ELSE IF \E i \in 1..(Len(toks) \div 2) : ~DiracPairOk(toks[2 * i - 1], toks[2 * i])
    THEN Failed
    ELSE [i \in 1..(Len(toks) \div 2) |->
             <<to_absolute_path(toks[2 * i - 1]), to_absolute_path(toks[2 * i])>>]

\* DiracModule._read_manifest: the jobs, or Failed
dirac_read_manifest(lines) ==
    LET kept == Kept(lines) IN
    IF \E k \in 1..Len(kept) :
          ~(/\ EndsWith(Field(kept[k], 1), ".inp") /\ IsFile(Field(kept[k], 1))
            /\ EndsWith(Field(kept[k], 2), ".mol") /\ IsFile(Field(kept[k], 2)))
    THEN Failed
    ELSE [k \in 1..Len(kept) |-> <<Field(kept[k], 1), Field(kept[k], 2)>>]

\* the loop of TurbomoleModule._build_from_tokens from token k on
RECURSIVE turbomole_loop(_, _, _, _)
turbomole_loop(toks, k, current_control, js) ==
    IF k > Len(toks) THEN js
    ELSE IF EndsWith(toks[k], "control")
    THEN IF ~IsFile(toks[k]) THEN Failed
         ELSE turbomole_loop(toks, k + 1, toks[k], js)
    ELSE IF EndsWith(toks[k], "coord")
    THEN IF ~IsFile(toks[k]) \/ ~NonEmpty(current_control) THEN Failed
         ELSE turbomole_loop(toks, k + 1, current_control,
                  Append(js, <<to_absolute_path(current_control),
                               to_absolute_path(toks[k])>>))
    ELSE Failed

\* TurbomoleModule._build_from_tokens (non-empty tokens): the jobs, or Failed
turbomole_build_from_tokens(toks) ==
    LET js == turbomole_loop(toks, 1, NoPath, << >>) IN
    IF js = << >> THEN Failed ELSE js

\* TurbomoleModule._read_manifest: the jobs, or Failed
turbomole_read_manifest(lines) ==
    LET kept == Kept(lines) IN
    IF \E k \in 1..Len(kept) :
          ~(IsFile(Field(kept[k], 1)) /\ IsFile(Field(kept[k], 2)))
    THEN Failed
    ELSE [k \in 1..Len(kept) |-> <<Field(kept[k], 1), Field(kept[k], 2)>>]

\* build_jobs lines 170-175 of both modules, given what was assembled
ReturnJobs(js) ==
    IF js = Failed \/ Len(js) < 1
    THEN /\ DieUsage                              \* "No jobs assembled"
         /\ UNCHANGED <<jobs, inputs, array_mode>>
    ELSE /\ jobs' = js
         /\ inputs' = js
         /\ array_mode' = (Len(js) > 1)
         /\ outcome' = "ok"
         /\ jpc' = "resolved"

\* DiracModule.build_jobs
DiracBuildJobs ==
    /\ jpc = "start"
    /\ workload = "dirac"
    /\ ReturnJobs(IF manifest_file THEN dirac_read_manifest(tokens)
                  ELSE dirac_build_from_tokens(tokens))
    /\ UNCHANGED <<workload, manifest_file, input_extensions, tokens, pos, dalVars,
                   exec_manifest, array_last, task_input>>
    /\ UNCHANGED nonJobVars

\* TurbomoleModule.build_jobs
TurbomoleBuildJobs ==
    /\ jpc = "start"
    /\ workload = "turbomole"
    /\ IF ~manifest_file /\ Len(tokens) = 0
       THEN /\ outcome' = "assertion_error"      \* turbomole.py line 380
            /\ jpc' = "done"
            /\ UNCHANGED <<jobs, inputs, array_mode>>
       ELSE ReturnJobs(IF manifest_file THEN turbomole_read_manifest(tokens)
                       ELSE turbomole_build_from_tokens(tokens))
    /\ UNCHANGED <<workload, manifest_file, input_extensions, tokens, pos, dalVars,
                   exec_manifest, array_last, task_input>>
    /\ UNCHANGED nonJobVars

(* ---- cli._determine_job_name_and_manifest, sbatch header, array tasks --- *)

\* manifest.create_manifest: one absolute path per line
create_manifest(ins) == [k \in 1..Len(ins) |-> to_absolute_path(ins[k])]

\* cli.py lines 215-229
DetermineManifest ==
    /\ jpc = "resolved"
    /\ exec_manifest' =
          IF ~array_mode THEN << >>
          ELSE IF workload # "default" THEN jobs      \* create_exec_manifest
          ELSE IF manifest_file THEN tokens           \* the user's file, as it is
          ELSE create_manifest(inputs)
    /\ jpc' = "manifested"
    /\ UNCHANGED <<workload, manifest_file, input_extensions, tokens, pos, dalVars,
                   jobs, inputs, array_mode, outcome, array_last, task_input>>
    /\ UNCHANGED nonJobVars

\* sbatch.emit_sbatch_header lines 43-47
EmitHeader ==
    /\ jpc = "manifested"
    /\ array_last' = (IF array_mode THEN Len(inputs) ELSE 0)
    /\ jpc' = "submitted"
    /\ UNCHANGED <<workload, manifest_file, input_extensions, tokens, pos, dalVars,
                   jobs, inputs, array_mode, outcome, exec_manifest, task_input>>
    /\ UNCHANGED nonJobVars

\* sed -n "${SLURM_ARRAY_TASK_ID}p" "<exec_manifest>"
SedLine(lines, i) == IF i <= Len(lines) THEN lines[i] ELSE NoPath

\* generate_default_array_body line 177, run by array task i
TaskRead(i) ==
    /\ jpc = "submitted"
    /\ workload = "default"
    /\ i \in 1..array_last
    /\ i \notin DOMAIN task_input
    /\ task_input' = [k \in DOMAIN task_input \cup {i} |->
                         IF k = i THEN SedLine(exec_manifest, i) ELSE task_input[k]]
    /\ UNCHANGED <<workload, manifest_file, input_extensions, tokens, jpc, pos,
                   dalVars, jobs, inputs, array_mode, outcome, exec_manifest,
                   array_last>>
    /\ UNCHANGED nonJobVars

InitJobs ==
    /\ BackupIdle
    /\ ScriptIdle
    /\ CliIdle
    /\ workload \in {"default", "dalton", "dirac", "turbomole"}
    /\ manifest_file \in (IF workload = "dalton" THEN {FALSE} ELSE BOOLEAN)
    /\ input_extensions \in (IF workload = "default" THEN {<<".inp">>, << >>} ELSE {<< >>})
    /\ tokens \in
          CASE workload = "dalton" -> BoundedSeq(DaltonTokens, MaxTokens)
            [] workload = "dirac" ->
                 IF manifest_file THEN BoundedSeq(DiracLines, MaxArgs)
                 ELSE BoundedSeq(DiracTokens, MaxPairTokens)
            [] workload = "turbomole" ->
                 IF manifest_file THEN BoundedSeq(TurbomoleLines, MaxArgs)
                 ELSE BoundedSeq(TurbomoleTokens, MaxPairTokens)
            [] OTHER ->
                 IF manifest_file THEN BoundedSeq(ManifestLines, MaxArgs)
                 ELSE BoundedSeq(DefaultArgs, MaxArgs)
    /\ jpc = "start"
    /\ pos = 1
    /\ current_dal = NoPath
    /\ current_dal_has_mol = FALSE
    /\ sticky_pot = NoPath
    /\ seg_start = 0
    /\ next_restart = NoPath
    /\ pending_global_restart = NoPath
    /\ pending_pot_before_dal = NoPath
    /\ jobs = << >>
    /\ inputs = << >>
    /\ array_mode = FALSE
    /\ outcome = "none"
    /\ exec_manifest = << >>
    /\ array_last = 0
    /\ task_input = << >>

NextJobs ==
    \/ ResolveInputs
    \/ DaltonStart
    \/ HandleDalToken
    \/ HandlePotToken
    \/ HandleRestartToken
    \/ HandleMolToken
    \/ HandleOtherToken
    \/ DaltonFinish
    \/ DiracBuildJobs
    \/ TurbomoleBuildJobs
    \/ DetermineManifest
    \/ EmitHeader
    \/ \E i \in 1..(MaxArgs + 1) : TaskRead(i)

SpecJobs == InitJobs /\ [][NextJobs]_vars

(***************************************************************************)
(* Execution of a generated sbatch script under "set -euo pipefail".  A    *)
(* command is a record: its name and how the shell treats its status.      *)
(*   builtin  printf, sleep, export, read, an assignment: status 0         *)
(*   plain    a simple command: a non-zero status ends the script          *)
(*   guarded  "cmd || true", "test && cmd", the condition of an if whose   *)
(*            branches only print: the status is ignored                   *)
(*   cond     the condition of "if cmd; then next; fi": on a non-zero      *)
(*            status the next command is skipped                           *)
(*   run      the workload's run command as a simple command               *)
(*   capture  the run command as "cmd && code=0 || code=$?"                *)
(*   or_exit  "cmd || exit 1"                                              *)
(*   exit     "exit $code"                                                 *)
(***************************************************************************)
Cmd(name, kind) == [name |-> name, kind |-> kind]

Status == 0..MaxStatus

DefaultModules == {"orca", "gaussian", "molpro"}

CustomModules == {"dalton", "dirac", "turbomole"}

\* ModuleMetadata.uses_scratch
uses_scratch(m) == m \in {"orca", "gaussian"}

\* ModuleMetadata.uses_archive
uses_archive(m) == m = "orca"

\* scratch.emit_scratch_setup: mkdir -p "$scratch_directory"
emit_scratch_setup == <<Cmd("mkdir", "plain")>>

\* scratch.emit_scratch_cleanup: rm -rf "$scratch_directory"
emit_scratch_cleanup == <<Cmd("rm", "plain")>>

\* sbatch.emit_job_info_block: printf lines
emit_job_info_block == <<Cmd("printf", "builtin")>>

\* sbatch.emit_archive_block: "if tar ...; then printf; else printf; fi"
emit_archive_block(create) ==
    IF create THEN <<Cmd("tar", "guarded")>> ELSE <<Cmd("printf", "builtin")>>

\* sbatch.emit_job_footer: printf, printf, sleep 2, /usr/bin/sacct
emit_job_footer ==
    <<Cmd("printf", "builtin"), Cmd("sleep", "builtin"), Cmd("sacct", "plain")>>

\* emit_run_command of the modules that use the default bodies
emit_run_command(m) ==
    CASE m = "orca" -> <<Cmd("cp", "plain"), Cmd("orca", "run")>>
      [] m = "gaussian" -> <<Cmd("export", "builtin"), Cmd("g16", "run")>>
      [] OTHER -> <<Cmd("molpro", "run")>>

\* emit_retrieve_outputs of the modules that use the default bodies
emit_retrieve_outputs(m) ==
    CASE m = "orca" -> <<Cmd("printf", "builtin"), Cmd("mv", "guarded")>>
      [] m = "gaussian" -> <<Cmd("ls", "cond"), Cmd("mv", "plain")>>
      [] OTHER -> << >>

\* the part the two default bodies share, from the info block to the footer
DefaultBodyTail(m, create) ==
    emit_job_info_block
    \o (IF uses_scratch(m) THEN emit_scratch_setup ELSE << >>)
    \o emit_run_command(m)
    \o emit_retrieve_outputs(m)
    \o (IF uses_archive(m) THEN emit_archive_block(create) ELSE << >>)
    \o (IF uses_scratch(m) THEN emit_scratch_cleanup ELSE << >>)
    \o emit_job_footer

\* sbatch.generate_default_array_body
generate_default_array_body(m, create) ==
    <<Cmd("sed", "plain"), Cmd("basename", "plain"), Cmd("exec", "plain")>>
    \o DefaultBodyTail(m, create)

\* sbatch.generate_default_single_body
generate_default_single_body(m, create) ==
    <<Cmd("stem", "builtin")>> \o DefaultBodyTail(m, create)

\* DaltonModule._emit_dalton_run_command
emit_dalton_run_command ==
    <<Cmd("mkdir", "plain"), Cmd("test", "guarded"), Cmd("dalton", "capture"),
      Cmd("ls", "cond"), Cmd("mv", "plain"), Cmd("rm", "guarded")>>

\* DiracModule._emit_dirac_run_command
emit_dirac_run_command ==
    <<Cmd("mkdir", "plain"), Cmd("pam", "capture"), Cmd("mv", "guarded"),
      Cmd("rm", "guarded")>>

\* TurbomoleModule._emit_turbomole_run_command
emit_turbomole_run_command ==
    <<Cmd("export", "builtin"), Cmd("cd", "or_exit"), Cmd("dscf", "capture")>>

CustomRunCommand(m) ==
    CASE m = "dalton" -> emit_dalton_run_command
      [] m = "dirac" -> emit_dirac_run_command
      [] OTHER -> emit_turbomole_run_command

\* generate_array_body of the Dalton, Dirac and Turbomole modules
generate_array_body(m) ==
    <<Cmd("sed", "plain"), Cmd("read", "builtin"), Cmd("basename", "plain"),
      Cmd("exec", "plain"), Cmd("printf", "builtin"),
      Cmd("backup_existing_files", "plain")>>
    \o CustomRunCommand(m)
    \o emit_job_footer
    \o <<Cmd("exit", "exit")>>

\* generate_single_body of the Dalton, Dirac and Turbomole modules
generate_single_body(m) ==
    <<Cmd("basename", "plain"), Cmd("printf", "builtin"),
      Cmd("backup_existing_files", "plain")>>
    \o CustomRunCommand(m)
    \o emit_job_footer
    \o <<Cmd("exit", "exit")>>

\* sbatch.generate_sbatch_script: the body the module and array_mode select
generate_sbatch_script(m, arr, create) ==
    IF arr
    THEN IF m \in CustomModules THEN generate_array_body(m)
         ELSE generate_default_array_body(m, create)
    ELSE IF m \in CustomModules THEN generate_single_body(m)
         ELSE generate_default_single_body(m, create)

Running == sp >= 1 /\ sp <= Len(script) /\ exit_status = Unset

At(kind) == Running /\ script[sp].kind = kind

InitScript ==
    /\ BackupIdle
    /\ JobsIdle
    /\ CliIdle
    /\ module \in DefaultModules \cup CustomModules
    /\ script_array \in BOOLEAN
    /\ create_archive \in BOOLEAN
    /\ script = generate_sbatch_script(module, script_array, create_archive)
    /\ sp = 1
    /\ last_status = 0
    /\ run_status = Unset
    /\ code_var = Unset
    /\ exit_status = Unset
    /\ failed = {}

configVars == <<module, script_array, create_archive, script>>

Note(s) == IF s # 0 THEN failed \cup {sp} ELSE failed

\* errexit: a simple command with a non-zero status ends the script with it
ErrExit(s) ==
    IF s # 0
    THEN /\ exit_status' = s
         /\ sp' = sp
    ELSE /\ exit_status' = exit_status
         /\ sp' = sp + 1

ExecBuiltin ==
    /\ At("builtin")
    /\ last_status' = 0
    /\ sp' = sp + 1
    /\ UNCHANGED <<configVars, run_status, code_var, exit_status, failed>>
    /\ UNCHANGED <<backupVars, jobVars, cliVars>>

ExecPlain ==
    /\ At("plain")
    /\ \E s \in Status :
        /\ last_status' = s
        /\ failed' = Note(s)
        /\ ErrExit(s)
    /\ UNCHANGED <<configVars, run_status, code_var>>
    /\ UNCHANGED <<backupVars, jobVars, cliVars>>

ExecGuarded ==
    /\ At("guarded")
    /\ \E s \in Status :
        /\ last_status' = 0
        /\ failed' = Note(s)
    /\ sp' = sp + 1
    /\ UNCHANGED <<configVars, run_status, code_var, exit_status>>
    /\ UNCHANGED <<backupVars, jobVars, cliVars>>

ExecCond ==
    /\ At("cond")
    /\ \E s \in Status :
        /\ last_status' = 0
        /\ failed' = Note(s)
        /\ sp' = IF s = 0 THEN sp + 1 ELSE sp + 2
    /\ UNCHANGED <<configVars, run_status, code_var, exit_status>>
    /\ UNCHANGED <<backupVars, jobVars, cliVars>>

ExecRun ==
    /\ At("run")
    /\ \E s \in Status :
        /\ run_status' = s
        /\ last_status' = s
        /\ failed' = Note(s)
        /\ ErrExit(s)
    /\ UNCHANGED <<configVars, code_var>>
    /\ UNCHANGED <<backupVars, jobVars, cliVars>>

ExecCapture ==
    /\ At("capture")
    /\ \E s \in Status :
        /\ run_status' = s
        /\ code_var' = s
        /\ failed' = Note(s)
    /\ last_status' = 0
    /\ sp' = sp + 1
    /\ UNCHANGED <<configVars, exit_status>>
    /\ UNCHANGED <<backupVars, jobVars, cliVars>>

ExecOrExit ==
    /\ At("or_exit")
    /\ \E s \in Status :
        /\ failed' = Note(s)
        /\ IF s # 0
           THEN exit_status' = 1 /\ sp' = sp /\ last_status' = s
           ELSE exit_status' = exit_status /\ sp' = sp + 1 /\ last_status' = 0
    /\ UNCHANGED <<configVars, run_status, code_var>>
    /\ UNCHANGED <<backupVars, jobVars, cliVars>>

ExecExit ==
    /\ At("exit")
    /\ exit_status' = code_var
    /\ UNCHANGED <<configVars, sp, last_status, run_status, code_var, failed>>
    /\ UNCHANGED <<backupVars, jobVars, cliVars>>

\* the end of the file: the script exits with the status of its last command
EndOfScript ==
    /\ sp = Len(script) + 1
    /\ exit_status = Unset
    /\ exit_status' = last_status
    /\ UNCHANGED <<configVars, sp, last_status, run_status, code_var, failed>>
    /\ UNCHANGED <<backupVars, jobVars, cliVars>>

NextScript ==
    \/ ExecBuiltin
    \/ ExecPlain
    \/ ExecGuarded
    \/ ExecCond
    \/ ExecRun
    \/ ExecCapture
    \/ ExecOrExit
    \/ ExecExit
    \/ EndOfScript

SpecScript == InitScript /\ [][NextScript]_vars

(***************************************************************************)
(* The exec workload: the command line of "sexec" from parse_common_args   *)
(* through ExecModule.parse_args and validate to resolve_inputs.  A word   *)
(* of the command line is a string.                                        *)
(***************************************************************************)
ExecWords == {"--", "-x", "--mpi", "-c", "4", "./prog", "in.dat"}

\* arg.startswith("-")
StartsWithDash(w) == w \in {"--", "-x", "--mpi", "-c"}

\* _VALUE_FLAGS (of the words above) and the fields of _INT_FIELDS
ValueFlags == {"-c"}

\* int(value) succeeds
IsInt(w) == w = "4"

\* validate_file_exists succeeds
ExistingFiles == {"./prog", "in.dat"}

ArgLists == UNION {[1..n -> ExecWords] : n \in 0..MaxArgv}

Parsed(p, r, e) == [positional_args |-> p, remaining_args |-> r, error |-> e]

\* _handle_unknown_flag: the new index after the flag and its optional value
handle_unknown_flag(a, i) ==
    IF i + 1 <= Len(a) /\ ~StartsWithDash(a[i + 1]) THEN i + 2 ELSE i + 1

\* the loop of parse_common_args from index i on
RECURSIVE parse_common_loop(_, _, _, _)
parse_common_loop(a, i, p, r) ==
    IF i > Len(a) THEN Parsed(p, r, "none")
    ELSE IF a[i] \in ValueFlags
         THEN IF i + 1 > Len(a) THEN Parsed(p, r, "usage_error")
              ELSE IF ~IsInt(a[i + 1]) THEN Parsed(p, r, "value_error")
              ELSE parse_common_loop(a, i + 2, p, r)
    ELSE IF a[i] = "--" THEN Parsed(p, r \o SubSeq(a, i, Len(a)), "none")
    ELSE IF StartsWithDash(a[i])
         THEN parse_common_loop(a, handle_unknown_flag(a, i), p,
                                r \o SubSeq(a, i, handle_unknown_flag(a, i) - 1))
    ELSE parse_common_loop(a, i + 1, Append(p, a[i]), r)

parse_common_args(a) == parse_common_loop(a, 1, << >>, << >>)

\* the loop of ExecModule.parse_args from index i on: cmd is _command, exe is
\* executable_path
RECURSIVE exec_parse_loop(_, _, _, _)
exec_parse_loop(a, i, cmd, exe) ==
    LET WithExe(c) == IF exe # "" THEN <<exe>> \o c ELSE c
    IN  IF i > Len(a) THEN [command |-> WithExe(cmd), error |-> "none"]
        ELSE IF a[i] = "--mpi" THEN exec_parse_loop(a, i + 1, cmd, exe)
        ELSE IF a[i] = "-x"
             THEN IF i + 1 > Len(a) THEN [command |-> cmd, error |-> "usage_error"]
                  ELSE exec_parse_loop(a, i + 2, cmd, a[i + 1])
        ELSE IF a[i] = "--"
             THEN [command |-> WithExe(cmd \o SubSeq(a, i + 1, Len(a))),
                   error |-> "none"]
        ELSE exec_parse_loop(a, i + 1, Append(cmd, a[i]), exe)

exec_parse_args(a) == exec_parse_loop(a, 1, << >>, "")

asmVars == <<overrides, ctx_array_mode, detected, body>>
delivVars ==
    <<export_file, dpc, disk, sbatch_calls, sbatch_stdin, returncode, returned>>
nonExecVars == <<backupVars, jobVars, scriptVars, asmVars, delivVars, mainVars, taskVars>>

ExecFail(e) ==
    /\ xpc' = "done"
    /\ exec_outcome' = e

\* cli._parse_and_validate: parse_common_args (validate_common_args accepts the
\* cpu count 4)
ParseCommonArgs ==
    /\ xpc = "parse_common"
    /\ LET parsed == parse_common_args(args)
       IN  /\ positional_args' = parsed.positional_args
           /\ remaining_args' = parsed.remaining_args
           /\ IF parsed.error # "none"
              THEN ExecFail(parsed.error)
              ELSE xpc' = "parse_args" /\ UNCHANGED exec_outcome
    /\ UNCHANGED <<args, command, exec_inputs, exec_array_mode>>
    /\ UNCHANGED nonExecVars

\* cli._parse_and_validate: module.parse_args(parsed.remaining_args, config)
ModuleParseArgs ==
    /\ xpc = "parse_args"
    /\ LET res == exec_parse_args(remaining_args)
       IN  /\ command' = res.command
           /\ IF res.error # "none"
              THEN ExecFail(res.error)
              ELSE xpc' = "validate" /\ UNCHANGED exec_outcome
    /\ UNCHANGED <<args, positional_args, remaining_args, exec_inputs, exec_array_mode>>
    /\ UNCHANGED nonExecVars

\* cli._resolve_job_inputs, the branch of a module without set_inputs:
\* module.validate(config) comes first
ExecValidate ==
    /\ xpc = "validate"
    /\ IF command = << >>
       THEN ExecFail("usage_error")
       ELSE xpc' = "resolve" /\ UNCHANGED exec_outcome
    /\ UNCHANGED <<args, positional_args, remaining_args, command, exec_inputs,
                   exec_array_mode>>
    /\ UNCHANGED nonExecVars

\* ExecModule does not override build_jobs: resolve_inputs on the positional
\* arguments (no manifest file, no input_extensions)
ExecResolveInputs ==
    /\ xpc = "resolve"
    /\ IF Len(positional_args) = 0
          \/ \E k \in 1..Len(positional_args) : positional_args[k] \notin ExistingFiles
       THEN ExecFail("usage_error") /\ UNCHANGED <<exec_inputs, exec_array_mode>>
       ELSE /\ exec_inputs' = positional_args
            /\ exec_array_mode' = (Len(positional_args) > 1)
            /\ xpc' = "done"
            /\ exec_outcome' = "ok"
    /\ UNCHANGED <<args, positional_args, remaining_args, command>>
    /\ UNCHANGED nonExecVars

InitExec ==
    /\ MainIdle
    /\ TasksIdle
    /\ BackupIdle
    /\ JobsIdle
    /\ ScriptIdle
    /\ AssemblyIdle
    /\ DeliveryIdle
    /\ args \in ArgLists
    /\ positional_args = << >>
    /\ remaining_args = << >>
    /\ command = << >>
    /\ xpc = "parse_common"
    /\ exec_inputs = << >>
    /\ exec_array_mode = FALSE
    /\ exec_outcome = "none"

NextExec ==
    \/ ParseCommonArgs
    \/ ModuleParseArgs
    \/ ExecValidate
    \/ ExecResolveInputs

SpecExec == InitExec /\ [][NextExec]_vars

(***************************************************************************)
(* Override detection and the choice of the script body.  A workload class *)
(* is the set of optional capabilities its class body defines; a function  *)
(* object is the pair of the class that defines it and its name.           *)
(***************************************************************************)
Capabilities ==
    {"build_jobs", "create_exec_manifest", "determine_job_name", "backup_all",
     "generate_array_body", "generate_single_body"}

\* SubmitModule.<name>
BaseImpl(name) == [owner |-> "SubmitModule", name |-> name]

\* type(self).<name>: the class's own definition, else the one inherited
ClassAttr(defined, name) ==
    IF name \in defined THEN [owner |-> "subclass", name |-> name] ELSE BaseImpl(name)

has_custom_flag(defined, name) == defined # {}

\* has_custom_<name>
has_custom(defined, name) == ClassAttr(defined, name) # BaseImpl(name)

nonAsmVars ==
    <<backupVars, jobVars, scriptVars, args, positional_args, remaining_args,
      command, xpc, exec_inputs, exec_array_mode, exec_outcome, delivVars, mainVars, taskVars>>

\* the six has_custom_* properties are read
DetectOverrides ==
    /\ detected = << >>
    /\ detected' = [c \in Capabilities |-> has_custom(overrides, c)]
    /\ UNCHANGED <<overrides, ctx_array_mode, body>>
    /\ UNCHANGED nonAsmVars

\* generate_sbatch_script: which body generator writes the body
GenerateSbatchScript ==
    /\ body = "none"
    /\ body' = IF ctx_array_mode
               THEN IF has_custom(overrides, "generate_array_body")
                    THEN "custom_array" ELSE "default_array"
               ELSE IF has_custom(overrides, "generate_single_body")
                    THEN "custom_single" ELSE "default_single"
    /\ UNCHANGED <<overrides, ctx_array_mode, detected>>
    /\ UNCHANGED nonAsmVars

InitAssemble ==
    /\ MainIdle
    /\ TasksIdle
    /\ BackupIdle
    /\ JobsIdle
    /\ ScriptIdle
    /\ ExecIdle
    /\ DeliveryIdle
    /\ overrides \in SUBSET Capabilities
    /\ ctx_array_mode \in BOOLEAN
    /\ detected = << >>
    /\ body = "none"

NextAssemble ==
    \/ DetectOverrides
    \/ GenerateSbatchScript

SpecAssemble == InitAssemble /\ [][NextAssemble]_vars

(***************************************************************************)
(* Delivery: submit_job assembles the script and either writes it to the   *)
(* export path or pipes it to sbatch.  The file at the export path is a    *)
(* record of its content and its permission bits (octal digits).           *)
(***************************************************************************)
\* a file that was at the export path before the run
OldFile == [content |-> <<Cmd("old", "builtin")>>, mode |-> 644]

\* the permission bits of the file once open(filepath, "w") has succeeded
OpenedMode(d) == IF d = NoFile THEN 644 ELSE d.mode

\* result.returncode of subprocess.run(["sbatch"]): an exit status, or the
\* negated number of the signal that ended sbatch
SbatchStatuses == (0..MaxStatus) \cup {-9}

ReturnCode_Propagate(rc) == rc

\* _submit_to_sbatch: 1 when result.returncode != 0, else 0
ReturnCode(rc) == IF rc # 0 THEN 1 ELSE 0

nonDelivVars ==
    <<backupVars, jobVars, args, positional_args, remaining_args, command, xpc,
      exec_inputs, exec_array_mode, exec_outcome, asmVars, sp, last_status,
      run_status, code_var, exit_status, failed, mainVars, taskVars>>

\* submit_job: generate_sbatch_script(ctx), then the choice by config.export_file
SubmitJob ==
    /\ dpc = "submit_job"
    /\ script' = generate_sbatch_script(module, script_array, create_archive)
    /\ dpc' = IF export_file # "" THEN "write_export" ELSE "submit_to_sbatch"
    /\ UNCHANGED <<export_file, disk, sbatch_calls, sbatch_stdin, returncode, returned>>
    /\ UNCHANGED <<module, script_array, create_archive>>
    /\ UNCHANGED nonDelivVars

\* _write_export: open, write, chmod 0o755; an OSError of any of the three
\* is caught and gives 1
WriteExport ==
    /\ dpc = "write_export"
    /\ \/ /\ disk' = disk                                   \* open fails
          /\ returned' = 1
       \/ \E k \in 0..(Len(script) - 1) :                   \* write fails
            /\ disk' = [content |-> SubSeq(script, 1, k), mode |-> OpenedMode(disk)]
            /\ returned' = 1
       \/ /\ disk' = [content |-> script, mode |-> OpenedMode(disk)]   \* chmod fails
          /\ returned' = 1
       \/ /\ disk' = [content |-> script, mode |-> 755]
          /\ returned' = 0
    /\ dpc' = "done"
    /\ UNCHANGED <<export_file, sbatch_calls, sbatch_stdin, returncode>>
    /\ UNCHANGED <<module, script_array, create_archive, script>>
    /\ UNCHANGED nonDelivVars

\* _submit_to_sbatch: one subprocess.run(["sbatch"], input=script); an
\* exception of subprocess.run (sbatch cannot be started) is not caught
SubmitToSbatch ==
    /\ dpc = "submit_to_sbatch"
    /\ sbatch_calls' = sbatch_calls + 1
    /\ \/ /\ returned' = Raised
          /\ UNCHANGED <<sbatch_stdin, returncode>>
       \/ \E rc \in SbatchStatuses :
            /\ sbatch_stdin' = Append(sbatch_stdin, script)
            /\ returncode' = rc
            /\ returned' = ReturnCode(rc)
    /\ dpc' = "done"
    /\ UNCHANGED <<export_file, disk>>
    /\ UNCHANGED <<module, script_array, create_archive, script>>
    /\ UNCHANGED nonDelivVars

InitDeliver ==
    /\ MainIdle
    /\ TasksIdle
    /\ BackupIdle
    /\ JobsIdle
    /\ ExecIdle
    /\ AssemblyIdle
    /\ module \in DefaultModules \cup CustomModules
    /\ script_array \in BOOLEAN
    /\ create_archive \in BOOLEAN
    /\ script = << >>
    /\ sp = 0
    /\ last_status = 0
    /\ run_status = Unset
    /\ code_var = Unset
    /\ exit_status = Unset
    /\ failed = {}
    /\ export_file \in {"", "job.slurm"}
    /\ dpc = "submit_job"
    /\ disk \in {NoFile, OldFile}
    /\ sbatch_calls = 0
    /\ sbatch_stdin = << >>
    /\ returncode = Unset
    /\ returned = Unset

NextDeliver ==
    \/ SubmitJob
    \/ WriteExport
    \/ SubmitToSbatch

SpecDeliver == InitDeliver /\ [][NextDeliver]_vars

(***************************************************************************)
(* One invocation: main() and _main_inner().  The steps of _main_inner in  *)
(* the order it takes them; each of parse, validate and resolve can raise  *)
(* a usage error.                                                          *)
(***************************************************************************)
Stages_DirectoryFirst(set_inputs) ==
    <<"parse", "ensure_directory", "validate", "resolve", "manifest", "backup",
      "deliver">>

\* _main_inner lines 288-319 with _resolve_job_inputs lines 153-183: a module
\* with set_inputs resolves first and validates afterwards
Stages(set_inputs) ==
    IF set_inputs
    THEN <<"parse", "resolve", "validate", "ensure_directory", "manifest", "backup",
           "deliver">>
    ELSE <<"parse", "validate", "resolve", "ensure_directory", "manifest", "backup",
           "deliver">>

AtStage(name) ==
    /\ main_outcome = "none"
    /\ stage \in 1..Len(Stages(has_set_inputs))
    /\ Stages(has_set_inputs)[stage] = name

nonMainVars ==
    <<backupVars, jobVars, scriptVars, args, positional_args, remaining_args,
      command, xpc, exec_inputs, exec_array_mode, exec_outcome, asmVars, delivVars,
      taskVars>>

mainConfig == <<has_set_inputs, dir_exists, custom_manifest, user_manifest>>

\* main lines 98-106: a UsageError is reported and main returns 1; any other
\* exception leaves the interpreter, whose exit status is then 1 as well
MainFail(how) ==
    /\ main_outcome' = how
    /\ exit_code' = 1
    /\ UNCHANGED <<stage, passed, effects>>

MainPass(name) ==
    /\ passed' = passed \cup {name}
    /\ stage' = stage + 1
    /\ UNCHANGED <<effects, main_outcome, exit_code>>

\* _parse_and_validate: parse_common_args, validate_common_args, module.parse_args
MainParse ==
    /\ AtStage("parse")
    /\ \/ MainPass("parse")
       \/ MainFail("usage_error")
       \/ /\ main_outcome' = "help"            \* -h: sys.exit(0)
          /\ exit_code' = 0
          /\ UNCHANGED <<stage, passed, effects>>
    /\ UNCHANGED <<mainConfig, main_array_mode>>
    /\ UNCHANGED nonMainVars

\* module.validate(config)
MainValidate ==
    /\ AtStage("validate")
    /\ \/ MainPass("validate")
       \/ MainFail("usage_error")
    /\ UNCHANGED <<mainConfig, main_array_mode>>
    /\ UNCHANGED nonMainVars

\* build_jobs / resolve_inputs; the assertion of line 185 when inputs is empty
MainResolve ==
    /\ AtStage("resolve")
    /\ \/ /\ MainPass("resolve")
          /\ main_array_mode' \in (IF user_manifest THEN {TRUE} ELSE BOOLEAN)
       \/ /\ MainFail("usage_error")
          /\ UNCHANGED main_array_mode
       \/ /\ MainFail("assertion_error")
          /\ UNCHANGED main_array_mode
    /\ UNCHANGED mainConfig
    /\ UNCHANGED nonMainVars

\* ensure_directory(output_path)
MainEnsureDirectory ==
    /\ AtStage("ensure_directory")
    /\ effects' = IF dir_exists THEN effects ELSE Append(effects, "mkdir")
    /\ dir_exists' = TRUE
    /\ stage' = stage + 1
    /\ UNCHANGED <<has_set_inputs, custom_manifest, user_manifest, passed,
                   main_array_mode, main_outcome, exit_code>>
    /\ UNCHANGED nonMainVars

\* _determine_job_name_and_manifest: a manifest is written in array mode,
\* unless the user's manifest file is used as it is
MainManifest ==
    /\ AtStage("manifest")
    /\ effects' = IF main_array_mode /\ (custom_manifest \/ ~user_manifest)
                  THEN Append(effects, "manifest") ELSE effects
    /\ stage' = stage + 1
    /\ UNCHANGED <<mainConfig, passed, main_array_mode, main_outcome, exit_code>>
    /\ UNCHANGED nonMainVars

\* _backup_outputs
MainBackup ==
    /\ AtStage("backup")
    /\ \E rotated \in BOOLEAN :
         effects' = IF rotated THEN Append(effects, "backup") ELSE effects
    /\ stage' = stage + 1
    /\ UNCHANGED <<mainConfig, passed, main_array_mode, main_outcome, exit_code>>
    /\ UNCHANGED nonMainVars

\* return submit_job(ctx)
MainDeliver ==
    /\ AtStage("deliver")
    /\ effects' = Append(effects, "deliver")
    /\ \E rc \in SbatchStatuses :
         exit_code' = ReturnCode(rc)
    /\ main_outcome' = "returned"
    /\ stage' = stage + 1
    /\ UNCHANGED <<mainConfig, passed, main_array_mode>>
    /\ UNCHANGED nonMainVars

InitMain ==
    /\ BackupIdle
    /\ JobsIdle
    /\ ScriptIdle
    /\ ExecIdle
    /\ AssemblyIdle
    /\ DeliveryIdle
    /\ TasksIdle
    /\ has_set_inputs \in BOOLEAN
    /\ dir_exists \in BOOLEAN
    /\ custom_manifest \in BOOLEAN
    /\ user_manifest \in BOOLEAN
    /\ stage = 1
    /\ passed = {}
    /\ main_array_mode = FALSE
    /\ effects = << >>
    /\ main_outcome = "none"
    /\ exit_code = Unset

NextMain ==
    \/ MainParse
    \/ MainValidate
    \/ MainResolve
    \/ MainEnsureDirectory
    \/ MainManifest
    \/ MainBackup
    \/ MainDeliver

SpecMain == InitMain /\ [][NextMain]_vars

(***************************************************************************)
(* The Dalton manifest: create_exec_manifest writes one line per JobRecord *)
(* (its four fields joined by tabs), _read_manifest reads a manifest file. *)
(* A line is the list of its tab-separated fields.                         *)
(***************************************************************************)
\* the JobRecords Dalton resolution produces: absolute paths of existing
\* files; the companion is empty only for a .dal with embedded geometry
ResolvedJobs ==
    {Job(to_absolute_path(Tok(d, ".dal")), mol, pot, rst) :
        d \in {"a", "b"},
        mol \in {to_absolute_path(Tok("x", ".mol")), NoPath},
        pot \in {to_absolute_path(Tok("p", ".pot")), NoPath},
        rst \in {to_absolute_path(Tok("r", ".tar.gz")), NoPath}}
    \ {Job(to_absolute_path(Tok("b", ".dal")), NoPath, pot, rst) :
          pot \in {to_absolute_path(Tok("p", ".pot")), NoPath},
          rst \in {to_absolute_path(Tok("r", ".tar.gz")), NoPath}}

\* lines of a manifest written by hand
DaltonLines ==
    {<<Tok("a", ".dal"), Tok("x", ".mol")>>,
     <<Tok("b", ".dal"), Tok("y", ".mol"), Tok("p", ".pot")>>,
     <<Tok("a", ".dal")>>, <<Tok("b", ".dal")>>, <<Tok("x", ".mol")>>,
     <<Tok("p", ".pot")>>, <<Tok("r", ".tar.gz")>>, << >>, CommentLine}

\* line.split(): the fields between runs of whitespace; empty fields vanish
SplitWhitespace(line) == SelectSeq(line, NonEmpty)

\* the text of a line that holds a single non-empty field, as the token the
\* line becomes: trailing tabs stay at the end of the text
RawLine(line) ==
    LET f == SplitWhitespace(line)[1] IN
    IF Len(line) = 1 THEN f
    ELSE IF ~NonEmpty(line[Len(line)]) THEN [f EXCEPT !.ext = @ \o "\t"]
    ELSE Padded(f)

\* _read_manifest lines 681-693: the checks of a line with at least two fields
DirectLineOk(fields) ==
    /\ EndsWith(fields[1], ".dal") /\ IsFile(fields[1])
    /\ EndsWith(fields[2], ".mol") /\ IsFile(fields[2])
    /\ Len(fields) > 2 => (EndsWith(fields[3], ".pot") /\ IsFile(fields[3]))
    /\ Len(fields) > 3 => (EndsWith(fields[4], ".tar.gz") /\ IsFile(fields[4]))

\* DaltonModule.create_exec_manifest: fh.write(job + "\n") for each job
WriteExecManifest ==
    /\ jpc = "first_resolved"
    /\ workload = "dalton"
    /\ exec_manifest' = jobs
    /\ jpc' = "start"
    /\ UNCHANGED <<workload, manifest_file, input_extensions, tokens, pos, dalVars,
                   jobs, inputs, array_mode, outcome, array_last, task_input>>
    /\ UNCHANGED nonJobVars

\* build_jobs with config.manifest_file set: _read_manifest, then either the
\* token algorithm on the single-field lines or lines 226-231
ReadManifest ==
    /\ jpc = "start"
    /\ workload = "dalton"
    /\ manifest_file
    /\ LET kept == Kept(exec_manifest)
           direct == SelectSeq(kept, LAMBDA l : Len(SplitWhitespace(l)) >= 2)
           single == SelectSeq(kept, LAMBDA l : Len(SplitWhitespace(l)) < 2)
           js == [k \in 1..Len(direct) |->
                     Job(Field(SplitWhitespace(direct[k]), 1),
                         Field(SplitWhitespace(direct[k]), 2),
                         Field(SplitWhitespace(direct[k]), 3),
                         Field(SplitWhitespace(direct[k]), 4))]
       IN  IF \E k \in 1..Len(direct) : ~DirectLineOk(SplitWhitespace(direct[k]))
           THEN /\ DieUsage
                /\ UNCHANGED <<jobs, tokens, inputs, array_mode>>
           ELSE /\ jobs' = js
                /\ tokens' = [k \in 1..Len(single) |-> RawLine(single[k])]
                /\ IF Len(single) > 0
                   THEN /\ jpc' = "tokens"
                        /\ UNCHANGED <<inputs, array_mode, outcome>>
                   ELSE IF Len(js) < 1
                   THEN /\ DieUsage
                        /\ UNCHANGED <<inputs, array_mode>>
                   ELSE /\ inputs' = js
                        /\ array_mode' = DaltonArrayMode(js)
                        /\ outcome' = "ok"
                        /\ jpc' = "resolved"
    /\ UNCHANGED <<workload, manifest_file, input_extensions, pos, dalVars,
                   exec_manifest, array_last, task_input>>
    /\ UNCHANGED nonJobVars

(***************************************************************************)
(* SpecManifest: a Dalton invocation with -M.  The manifest is either the  *)
(* file create_exec_manifest writes for a resolved array JobSet, or a file *)
(* written by hand.                                                        *)
(***************************************************************************)
InitManifest ==
    /\ BackupIdle
    /\ ScriptIdle
    /\ CliIdle
    /\ workload = "dalton"
    /\ manifest_file = TRUE
    /\ input_extensions = << >>
    /\ tokens = << >>
    /\ pos = 1
    /\ current_dal = NoPath
    /\ current_dal_has_mol = FALSE
    /\ sticky_pot = NoPath
    /\ seg_start = 0
    /\ next_restart = NoPath
    /\ pending_global_restart = NoPath
    /\ pending_pot_before_dal = NoPath
    /\ array_last = 0
    /\ task_input = << >>
    /\ \/ /\ jpc = "first_resolved"
          /\ jobs \in UNION {[1..n -> ResolvedJobs] : n \in 2..MaxJobs}
          /\ inputs = jobs
          /\ array_mode = TRUE
          /\ outcome = "ok"
          /\ exec_manifest = << >>
       \/ /\ jpc = "start"
          /\ jobs = << >>
          /\ inputs = << >>
          /\ array_mode = FALSE
          /\ outcome = "none"
          /\ exec_manifest \in BoundedSeq(DaltonLines, MaxArgs)

NextManifest ==
    \/ WriteExecManifest
    \/ ReadManifest
    \/ HandleDalToken
    \/ HandlePotToken
    \/ HandleRestartToken
    \/ HandleMolToken
    \/ HandleOtherToken
    \/ DaltonFinish

SpecManifest == InitManifest /\ [][NextManifest]_vars

(***************************************************************************)
(* The tasks of submitted jobs while they run.  A submission is a single   *)
(* job or an array job; an array job runs one task per line of its exec    *)
(* manifest, concurrently.  The scheduler gives every submission job ids   *)
(* no other submission has; the tasks of one array either share the id or  *)
(* have one each.  Each task runs the default body of a scratch-using      *)
(* workload: sbatch.generate_default_array_body / _single_body.            *)
(***************************************************************************)
Subs == 1..NumSubs

\* the input files of the resolved JobSets: absolute paths of existing files
InputFiles ==
    {[dir |-> "dirA", base |-> "x"], [dir |-> "dirB", base |-> "x"],
     [dir |-> "dirA", base |-> "y"]}

\* the tasks of the submissions: <<submission, manifest line>>
Units == {u \in Subs \X (1..MaxTasks) : u[2] <= Len(tmanifest[u[1]])}

IsArray(s) == Len(tmanifest[s]) > 1

\* basename "$input_file" <ext>: the directory and the suffix are dropped
Basename(input_file) == input_file.base

\* f"{config.output_dir}${stem}{config.log_extension}"
LogPath(stem) == <<"output_dir", stem, "log_extension">>

NoLog == << >>

\* the value of scratch_directory below scratch_base
scratch_directory_JobOnly(e) == <<e.job_id>>

scratch_directory(e) ==
    IF e.array THEN <<e.job_id, e.task_id>> ELSE <<e.job_id>>

IsPrefix(p, q) == Len(p) <= Len(q) /\ SubSeq(q, 1, Len(p)) = p

\* mkdir -p: the directory and its missing parents
MkdirP(fs, d) == fs \cup {SubSeq(d, 1, n) : n \in 1..Len(d)}

\* rm -rf: the directory and everything below it
RmRf(fs, d) == {x \in fs : ~IsPrefix(d, x)}

\* sbatch.py 176-181: the task reads its manifest line and redirects its output
TaskStart(u) ==
    /\ tpc[u] = "pending"
    /\ tpc' = [tpc EXCEPT ![u] = "started"]
    /\ IF tenv[u].array
       THEN LET input_file == tmanifest[u[1]][tenv[u].task_id]
                stem == Basename(input_file)
            IN  log_file' = [log_file EXCEPT ![u] = LogPath(stem)]
       ELSE UNCHANGED log_file
    /\ UNCHANGED <<tenv, tmanifest, scratch_fs>>

\* scratch.emit_scratch_setup: mkdir -p "$scratch_directory"
ScratchSetup(u) ==
    /\ tpc[u] = "started"
    /\ tpc' = [tpc EXCEPT ![u] = "running"]
    /\ scratch_fs' = MkdirP(scratch_fs, scratch_directory(tenv[u]))
    /\ UNCHANGED <<tenv, tmanifest, log_file>>

\* scratch.emit_scratch_cleanup: rm -rf "$scratch_directory"
ScratchCleanup(u) ==
    /\ tpc[u] = "running"
    /\ tpc' = [tpc EXCEPT ![u] = "cleaned"]
    /\ scratch_fs' = RmRf(scratch_fs, scratch_directory(tenv[u]))
    /\ UNCHANGED <<tenv, tmanifest, log_file>>

\* set -euo pipefail: a failing run or retrieval command ends the task
\* before the cleanup line
TaskExit(u) ==
    /\ tpc[u] = "running"
    /\ tpc' = [tpc EXCEPT ![u] = "exited"]
    /\ UNCHANGED <<tenv, tmanifest, scratch_fs, log_file>>

nonTaskVars ==
    <<backupVars, jobVars, scriptVars, mainVars, args, positional_args,
      remaining_args, command, xpc, exec_inputs, exec_array_mode, exec_outcome,
      asmVars, delivVars>>

InitTasks ==
    /\ BackupIdle
    /\ JobsIdle
    /\ ScriptIdle
    /\ ExecIdle
    /\ AssemblyIdle
    /\ DeliveryIdle
    /\ MainIdle
    /\ tmanifest \in [Subs -> UNION {[1..n -> InputFiles] : n \in 1..MaxTasks}]
    /\ \E per_task_ids \in BOOLEAN :
         tenv = [u \in Units |->
                   [array |-> IsArray(u[1]),
                    job_id |-> IF per_task_ids THEN (u[1] - 1) * MaxTasks + u[2]
                                               ELSE (u[1] - 1) * MaxTasks + 1,
                    task_id |-> IF IsArray(u[1]) THEN u[2] ELSE 0]]
    /\ tpc = [u \in Units |-> "pending"]
    /\ scratch_fs = {}
    /\ log_file = [u \in Units |-> NoLog]

NextTasks ==
    \/ \E u \in Units : TaskStart(u) /\ UNCHANGED nonTaskVars
    \/ \E u \in Units : ScratchSetup(u) /\ UNCHANGED nonTaskVars
    \/ \E u \in Units : ScratchCleanup(u) /\ UNCHANGED nonTaskVars
    \/ \E u \in Units : TaskExit(u) /\ UNCHANGED nonTaskVars

SpecTasks == InitTasks /\ [][NextTasks]_vars

(***************************************************************************)
(* C1: after a host-side rotation completes, at most max_backups numbered  *)
(* siblings exist and the sibling with index max_backups does not exist.   *)
(***************************************************************************)
RotationDone == completed > 0 /\ \A p \in active : pc[p] = "idle"

C1_AtMostNSiblings ==
    RotationDone =>
        /\ Cardinality(DOMAIN files) <= max_backups
        /\ ~Exists(files, LastName)

(***************************************************************************)
(* C2: at most one process at a time is between acquiring the lock and     *)
(* releasing it (inside the rotate-and-rename sequence).                   *)
(***************************************************************************)
InRotation(p) ==
    pc[p] \in {"last_test", "last_rm", "loop_test", "loop_mv", "mv_target", "unlock"}

C2_MutualExclusion ==
    \A p, q \in active : (InRotation(p) /\ InRotation(q)) => p = q


(***************************************************************************)
(* C3: when array tasks call the emitted function concurrently on the same *)
(* target, the numbered backups they leave are those of running the calls  *)
(* one after another (the first call rotates, the others find no target).  *)
(***************************************************************************)
InlineFinished == \A p \in active : pc[p] \in {"sh_done", "sh_exit"}

C3_InlineSerializable ==
    InlineFinished =>
        files = RotateOnce(initial.files, initial.target, ShBase, max_backups)


(***************************************************************************)
(* C4: in array mode the script declares tasks 1..N, N the number of       *)
(* resolved JobRecords, and task i processes exactly the i-th JobRecord    *)
(* (default resolution, positional inputs or a user-supplied manifest).    *)
(***************************************************************************)
C4_TaskProcessesItsRecord ==
    (jpc = "submitted" /\ workload = "default" /\ array_mode) =>
        /\ array_last = Len(inputs)
        /\ \A i \in DOMAIN task_input :
              to_absolute_path(task_input[i]) = to_absolute_path(inputs[i])

(***************************************************************************)
(* Positions in a Dalton token stream.                                     *)
(***************************************************************************)
Positions(sfx) == {k \in 1..Len(tokens) : EndsWith(tokens[k], sfx)}

\* the primary in force at position m: the last .dal before it, 0 if none
PrimaryAt(m) ==
    IF \E d \in Positions(".dal") : d < m
    THEN CHOOSE d \in Positions(".dal") :
            d < m /\ \A e \in Positions(".dal") : e < m => e <= d
    ELSE 0

\* the end of the segment of the primary at d: the next .dal, or past the end
SegmentEnd(d) ==
    IF \E e \in Positions(".dal") : e > d
    THEN CHOOSE e \in Positions(".dal") :
            e > d /\ \A f \in Positions(".dal") : f > d => e <= f
    ELSE Len(tokens) + 1

\* the position of the k-th .mol token
NthMol(k) ==
    CHOOSE m \in Positions(".mol") :
        Cardinality({n \in Positions(".mol") : n <= m}) = k

DaltonResolved == workload = "dalton" /\ outcome = "ok"

(***************************************************************************)
(* C6: a .pot token read while a primary P is active is given to every     *)
(* JobRecord already created under P that has no modifier and to the       *)
(* companions of P read afterwards, until another .pot token; records of   *)
(* earlier primaries and records that carry a modifier stay unchanged.     *)
(* Per JobRecord: the modifier of the companion at m under the primary at  *)
(* d is the last .pot between d and m; failing that the modifier pending   *)
(* from before the first primary; failing that the first .pot after m in   *)
(* the segment of d; failing that none.                                    *)
(***************************************************************************)
PotsBetween(lo, hi) == {q \in Positions(".pot") : lo < q /\ q < hi}

MaxOf(S) == CHOOSE x \in S : \A y \in S : y <= x
MinOf(S) == CHOOSE x \in S : \A y \in S : x <= y

ExpectedPot(m) ==
    LET d == PrimaryAt(m)
        before == PotsBetween(d, m)
        pending == IF PotsBetween(0, d) # {} /\ Positions(".dal") \cap (1..(d - 1)) = {}
                   THEN PotsBetween(0, d) ELSE {}
        after == PotsBetween(m, SegmentEnd(d))
    IN IF before # {} THEN to_absolute_path(tokens[MaxOf(before)])
       ELSE IF pending # {} THEN to_absolute_path(tokens[MaxOf(pending)])
       ELSE IF after # {} THEN to_absolute_path(tokens[MinOf(after)])
       ELSE NoPath

C6_StickyModifier ==
    DaltonResolved =>
        \A k \in 1..Cardinality(Positions(".mol")) :
            /\ k <= Len(jobs)
            /\ jobs[k][2] = to_absolute_path(tokens[NthMol(k)])
            /\ jobs[k][3] = ExpectedPot(NthMol(k))

\* [primary, companionA, companionB, modifier]: both records reference the modifier
C6_Witness ==
    /\ DaltonResolved
    /\ tokens = <<Tok("a", ".dal"), Tok("x", ".mol"), Tok("y", ".mol"), Tok("p", ".pot")>>
    /\ Len(jobs) = 2
    /\ jobs[1][3] = to_absolute_path(Tok("p", ".pot"))
    /\ jobs[2][3] = to_absolute_path(Tok("p", ".pot"))

(***************************************************************************)
(* C7: a primary that receives no companion is never dropped silently: a   *)
(* resolved JobSet holds a companion-less JobRecord for it (and its        *)
(* content holds the geometry marker).                                     *)
(***************************************************************************)
NoCompanion(d) == \A m \in Positions(".mol") : ~(d < m /\ m < SegmentEnd(d))

C7_PrimaryNeverDropped ==
    DaltonResolved =>
        \A d \in Positions(".dal") :
            NoCompanion(d) =>
                /\ dal_contains_geometry(tokens[d])
                /\ \E k \in 1..Len(jobs) :
                      /\ jobs[k][1] = to_absolute_path(tokens[d])
                      /\ jobs[k][2] = NoPath


(***************************************************************************)
(* C8 (as claimed): every restart token that is followed later by a        *)
(* companion token is attached to the first companion after it and to no   *)
(* other JobRecord, whatever lies in between.                              *)
(***************************************************************************)
FollowedByMol(r) == \E m \in Positions(".mol") : m > r

FirstMolAfter(r) == MinOf({m \in Positions(".mol") : m > r})

\* the index of the JobRecord that the companion at position m closes
JobOfMol(m) == Cardinality({n \in Positions(".mol") : n <= m})

Attached(r, k) == k <= Len(jobs) /\ jobs[k][4] = to_absolute_path(tokens[r])

\* the archive of the token at r is named once in the stream
NamedOnce(r) == \A q \in Positions(".tar.gz") : tokens[q] = tokens[r] => q = r

AttachedOnlyToNext(r) ==
    /\ Attached(r, JobOfMol(FirstMolAfter(r)))
    /\ NamedOnce(r) =>
          \A j \in 1..Len(jobs) : j # JobOfMol(FirstMolAfter(r)) => ~Attached(r, j)

Between(sfx, lo, hi) == {q \in Positions(sfx) : lo < q /\ q < hi}

Eligible(r) ==
    /\ FollowedByMol(r)
    /\ Between(".tar.gz", r, FirstMolAfter(r)) = {}
    /\ PrimaryAt(r) # 0 => Between(".dal", r, FirstMolAfter(r)) = {}

JobSetReturned == outcome = "ok"

C9_ArrayModeIffMany ==
    JobSetReturned => (array_mode <=> Len(inputs) > 1)

(***************************************************************************)
(* C9 (amended): arrayMode is true exactly when the JobSet holds more than *)
(* one record for positional tokens and for a build_jobs override; for a   *)
(* manifest file of the default resolution arrayMode is always true.       *)
(***************************************************************************)
C9_ArrayModeAmended ==
    JobSetReturned =>
        IF workload = "default" /\ manifest_file
        THEN array_mode
        ELSE array_mode <=> Len(inputs) > 1

\* a default manifest with a single record, resolved in array mode
C9_Witness ==
    /\ JobSetReturned
    /\ workload = "default"
    /\ manifest_file
    /\ Len(inputs) = 1
    /\ array_mode

(***************************************************************************)
(* C10: default resolution without a manifest: when every token is an      *)
(* existing regular file with an accepted suffix, one token gives one      *)
(* JobRecord and single mode, n > 1 tokens give n JobRecords in token      *)
(* order and array mode; with no token, or a missing file or a suffix that *)
(* is not accepted, the result is a usage error and no JobSet.             *)
(***************************************************************************)
Accepted(t) ==
    \/ Len(input_extensions) = 0
    \/ t.ext \in {input_extensions[k] : k \in 1..Len(input_extensions)}

OnDisk(t) == t.name \notin Missing /\ t.name # "" /\ ~t.pad

AllTokensValid == \A k \in 1..Len(tokens) : OnDisk(tokens[k]) /\ Accepted(tokens[k])

C10_DefaultResolution ==
    (workload = "default" /\ ~manifest_file /\ jpc # "start") =>
        IF Len(tokens) >= 1 /\ AllTokensValid
        THEN /\ outcome = "ok"
             /\ inputs = tokens
             /\ array_mode = (Len(tokens) # 1)
        ELSE /\ outcome = "usage_error"
             /\ inputs = << >>

\* two equal tokens: two JobRecords, array mode, no de-duplication
C10_Witness ==
    /\ workload = "default"
    /\ ~manifest_file
    /\ outcome = "ok"
    /\ tokens = <<Tok("a", ".inp"), Tok("a", ".inp")>>
    /\ Len(inputs) = 2
    /\ array_mode

(***************************************************************************)
(* C5: whenever a generated script (default or custom body) has run its    *)
(* workload's run command and has exited, its exit status is the exit      *)
(* status of that run command; in particular a failing accounting query    *)
(* in the footer does not change it.                                       *)
(***************************************************************************)
C5_ExitStatusIsRunStatus ==
    (exit_status # Unset /\ run_status # Unset) => exit_status = run_status

(***************************************************************************)
(* C11: for the Dalton, Dirac and Turbomole workloads a finished           *)
(* build_jobs either returns a JobSet, in single mode for exactly one      *)
(* JobRecord and in array mode for more than one, or, when nothing was     *)
(* assembled, fails with a usage error.                                    *)
(***************************************************************************)
MultiToken == workload \in {"dalton", "dirac", "turbomole"}

BuildJobsFinished == MultiToken /\ jpc \notin {"start", "tokens"}

C11_ModeByJobCount ==
    BuildJobsFinished =>
        \/ outcome = "usage_error" /\ inputs = << >>
        \/ /\ outcome = "ok"
           /\ Len(inputs) >= 1
           /\ array_mode = (Len(inputs) > 1)

(***************************************************************************)
(* C12: Dirac token resolution: a stream of odd length ends in a usage     *)
(* error and no JobSet; a stream of even length gives one JobRecord per    *)
(* consecutive (inp, mol) pair, in order, when every pair names existing   *)
(* files with the suffixes .inp and .mol, and a usage error otherwise      *)
(* (the empty stream has no pair and is a usage error).                    *)
(***************************************************************************)
PairCount == Len(tokens) \div 2

GoodPair(i) ==
    /\ OnDisk(tokens[2 * i - 1]) /\ tokens[2 * i - 1].ext = ".inp"
    /\ OnDisk(tokens[2 * i]) /\ tokens[2 * i].ext = ".mol"

C12_DiracPairing ==
    (workload = "dirac" /\ ~manifest_file /\ jpc # "start") =>
        IF Len(tokens) % 2 = 1
        THEN outcome = "usage_error" /\ inputs = << >>
        ELSE IF PairCount >= 1 /\ \A i \in 1..PairCount : GoodPair(i)
        THEN /\ outcome = "ok"
             /\ Len(inputs) = PairCount
             /\ \A i \in 1..PairCount :
                   inputs[i] = <<to_absolute_path(tokens[2 * i - 1]),
                                 to_absolute_path(tokens[2 * i])>>
        ELSE outcome = "usage_error" /\ inputs = << >>

\* a valid pair followed by a third token: rejected, nothing returned
C12_Witness ==
    /\ workload = "dirac"
    /\ ~manifest_file
    /\ tokens = <<Tok("a", ".inp"), Tok("x", ".mol"), Tok("b", ".inp")>>
    /\ outcome = "usage_error"
    /\ inputs = << >>

(***************************************************************************)
(* C13: a finished call of the emitted inline function leaves the files    *)
(* that host-side backup_existing_file leaves on the same inputs: the      *)
(* numbered files under the host's backup_base (inside the subdirectory    *)
(* when use_backup_dir is set) rotated once, the target gone, the          *)
(* subdirectory created when requested, the lock file removed.             *)
(***************************************************************************)
\* the call on the target's path has returned without a warning
HostFinished(p) ==
    /\ pc[p] = "idle"
    /\ calls[p] = 1
    /\ ~warned[p]
    /\ initial.target # 0 => completed = 1

InlineDone(p) == pc[p] = "sh_done"

HostResult ==
    IF initial.target = 0
    THEN /\ files = initial.files
         /\ target = 0
         /\ ~dir_made
    ELSE /\ files = RotateOnce(initial.files, initial.target,
                               HostBase(use_backup_dir), max_backups)
         /\ target = 0
         /\ dir_made = use_backup_dir
         /\ lock_path = 0

C13_InlineEqualsHost ==
    \A p \in active : (HostFinished(p) \/ InlineDone(p)) => HostResult

(***************************************************************************)
(* C14: a host-side backup_existing_file call always terminates: the call  *)
(* of process 1 eventually returns, also when another process holds the    *)
(* lock of the lock file and never releases it.                            *)
(***************************************************************************)
Returned(p) == calls[p] = 1 /\ pc[p] = "idle"

C14_CallTerminates == <>Returned(1)

(***************************************************************************)
(* C15: the target is written as versions 1, 2, 3, ... and each version is *)
(* rotated by one successful host-side call.  After the c-th rotation the  *)
(* target is gone (until it is written again), index 0 holds version c,    *)
(* the content the target had just before, and index i + 1 holds what      *)
(* index i held before the rotation: index i holds version c - i, so the   *)
(* versions are in strictly increasing age from index 0 upward.            *)
(***************************************************************************)
Sibling(i) == BackupName(HostBase(use_backup_dir), i, Width(max_backups))

C15_RotationAgesByOne ==
    RotationDone =>
        /\ target \in {0, completed + 1}
        /\ Exists(files, Sibling(0))
        /\ files[Sibling(0)] = completed
        /\ \A i \in 0..(max_backups - 1) :
              /\ Exists(files, Sibling(i + 1)) <=> i + 1 < completed
              /\ Exists(files, Sibling(i + 1)) =>
                    files[Sibling(i + 1)] = files[Sibling(i)] - 1
        /\ DOMAIN files \subseteq {Sibling(i) : i \in 0..max_backups}

\* three rotations with max_backups = 3: versions 3, 2, 1 at indexes 0, 1, 2
C15_Witness ==
    /\ RotationDone
    /\ max_backups = 3
    /\ completed = 3
    /\ target = 0
    /\ files[Sibling(0)] = 3
    /\ files[Sibling(1)] = 2
    /\ files[Sibling(2)] = 1

(***************************************************************************)
(* C16: when the target does not exist, or is not a regular file, or every *)
(* call passes the empty path, then after any number of host-side calls    *)
(* the numbered files are those of the start (none created, renamed or     *)
(* deleted), the target is as it was, no backup subdirectory and no lock   *)
(* file has been created, and no call is past its guard.                   *)
(***************************************************************************)
NothingToRotate == ~TargetIsFile(initial.target) \/ limits.paths = {""}

C16_MissingTargetNoOp ==
    NothingToRotate =>
        /\ files = initial.files
        /\ target = initial.target
        /\ ~dir_made
        /\ lock_path = 0
        /\ \A p \in active : pc[p] = "idle" /\ lock_fd[p] = 0 /\ ~warned[p]

\* the call repeated on a directory, with numbered files present and the
\* subdirectory option set
C16_Witness ==
    /\ initial.target = Directory
    /\ use_backup_dir
    /\ limits.paths = {"target"}
    /\ calls[1] = MaxCalls + 1
    /\ files # NoFiles
    /\ files = initial.files
    /\ ~dir_made

(***************************************************************************)
(* C17: job resolution, for any workload and any input (no positional      *)
(* token and a manifest without non-empty lines included), ends either     *)
(* with a JobSet of at least one JobRecord or with a usage error; no empty *)
(* JobSet leaves the resolution.                                           *)
(***************************************************************************)
ResolutionFinished == jpc \notin {"start", "tokens"}

C17_NeverEmptyJobSet ==
    ResolutionFinished =>
        \/ outcome = "usage_error"
        \/ outcome = "ok" /\ Len(inputs) >= 1

(***************************************************************************)
(* C18: an exec invocation that supplies a command (after "--" or through  *)
(* -x) and no positional input file passes validation and job resolution   *)
(* and yields a single-mode job.                                           *)
(***************************************************************************)
CommandOnly ==
    /\ xpc = "done"
    /\ parse_common_args(args).error = "none"
    /\ exec_parse_args(remaining_args).error = "none"
    /\ \E k \in 1..Len(remaining_args) : remaining_args[k] \in {"--", "-x"}
    /\ command # << >>
    /\ positional_args = << >>

C18_CommandWithoutInputResolves ==
    CommandOnly => exec_outcome = "ok" /\ ~exec_array_mode

(***************************************************************************)
(* C19: the body of an assembled script is the workload's custom body      *)
(* exactly when the workload's class overrides the body generator of the   *)
(* current mode, and the default body of that mode otherwise; the          *)
(* has_custom_* properties of a class that overrides none of the six       *)
(* optional capabilities are all false, and those of a class that          *)
(* overrides exactly one capability are true for that capability only.     *)
(***************************************************************************)
ModeGenerator == IF ctx_array_mode THEN "generate_array_body" ELSE "generate_single_body"

ModeSuffix == IF ctx_array_mode THEN "array" ELSE "single"

C19_CustomBodyIffOverridden ==
    /\ body # "none" =>
          /\ ModeGenerator \in overrides => body = "custom_" \o ModeSuffix
          /\ ModeGenerator \notin overrides => body = "default_" \o ModeSuffix
    /\ detected # << >> =>
          /\ overrides = {} => \A c \in Capabilities : ~detected[c]
          /\ \A c \in Capabilities :
                overrides = {c} => \A d \in Capabilities : detected[d] <=> d = c

C19_Witness ==
    /\ overrides = {"generate_array_body"}
    /\ ~ctx_array_mode
    /\ body = "default_single"
    /\ detected # << >>
    /\ detected["generate_array_body"]

(***************************************************************************)
(* C20: a finished delivery did exactly one of the two.  With an export    *)
(* path set, sbatch was never called, and a return value of 0 means the    *)
(* file at the path holds the assembled script verbatim with permission    *)
(* 755, every failure of the write giving 1.  Without an export path,      *)
(* nothing was written, sbatch was called exactly once, it read the        *)
(* assembled script once, and the return value is 0 for exit status 0 and  *)
(* 1 for any other exit status.                                            *)
(***************************************************************************)
Assembled == generate_sbatch_script(module, script_array, create_archive)

Exported == disk = [content |-> Assembled, mode |-> 755]

C20_ExactlyOneDelivery ==
    dpc = "done" =>
        /\ export_file # "" =>
              /\ sbatch_calls = 0
              /\ sbatch_stdin = << >>
              /\ returned \in {0, 1}
              /\ returned = 0 <=> Exported
        /\ export_file = "" =>
              /\ disk \in {NoFile, OldFile}
              /\ sbatch_calls = 1
              /\ returncode # Unset =>
                    /\ sbatch_stdin = <<Assembled>>
                    /\ returncode = 0 => returned = 0
                    /\ returncode # 0 => returned = 1

C20_Witness ==
    /\ dpc = "done"
    /\ export_file = ""
    /\ sbatch_calls = 1
    /\ returncode = 2
    /\ returned = 1

(***************************************************************************)
(* C21: when the call of process 1 could not open or lock the lock file    *)
(* (an OSError, also while another process holds the lock), the call does  *)
(* not rotate: it is on its way out through the finally clause or has      *)
(* returned to its caller, and the target and every numbered sibling are   *)
(* as they were before the call.                                           *)
(***************************************************************************)
LeavingOrReturned(p) == pc[p] \in {"close", "lk_test", "lk_rm", "idle"}

C21_LockFailureSwallowed ==
    warned[1] =>
        /\ LeavingOrReturned(1)
        /\ completed = 0
        /\ files = initial.files
        /\ target = initial.target

C21_Witness ==
    /\ warned[1]
    /\ Returned(1)
    /\ lock_fd[1] = 0
    /\ target = initial.target
    /\ flocks[1] = Holder

(***************************************************************************)
(* C22: whenever no host-side call is in progress (every process is        *)
(* outside backup_existing_file), the lock file does not exist and no      *)
(* descriptor or lock on it is left: after successful rotations, after     *)
(* calls that failed once the lock file was open, and after any            *)
(* interleaving of the concurrent calls.                                   *)
(***************************************************************************)
NoCallInProgress == \A p \in active : pc[p] = "idle"

C22_LockFileTransient ==
    NoCallInProgress =>
        /\ lock_path = 0
        /\ \A p \in active : lock_fd[p] = 0
        /\ \A i \in Inodes : flocks[i] = 0

C22_Witness ==
    /\ NoCallInProgress
    /\ completed >= 2
    /\ \E p \in active : warned[p]
    /\ lock_path = 0

(***************************************************************************)
(* C23: an array task whose "flock -w 5" ran out without the lock (warned) *)
(* skips the rotation: none of its later steps renames or deletes a file,  *)
(* neither a numbered sibling nor the target.                              *)
(***************************************************************************)
StepOfTimedOut == \E p \in active : warned[p] /\ pc'[p] # pc[p]

C23_TimeoutSkipsRotation ==
    [][StepOfTimedOut => (files' = files /\ target' = target)]_vars

(***************************************************************************)
(* C24: in a default-body script of a scratch-using workload the scratch   *)
(* directory is created before the run command, and a script that has      *)
(* created it and has exited has removed it, whichever command ended the   *)
(* script.                                                                 *)
(***************************************************************************)
PosOf(name) == CHOOSE i \in 1..Len(script) : script[i].name = name

RunPos == CHOOSE i \in 1..Len(script) : script[i].kind = "run"

\* the command at position q has run and exited with status 0
Succeeded(q) == sp > q /\ q \notin failed

ScratchScript == module \in DefaultModules /\ uses_scratch(module) /\ script # << >>

C24_ScratchAlwaysRemoved ==
    ScratchScript =>
        /\ PosOf("mkdir") < RunPos
        /\ (exit_status # Unset /\ Succeeded(PosOf("mkdir"))) => Succeeded(PosOf("rm"))

(***************************************************************************)
(* C25: Dalton tokens with a .pot before the first .dal.  Every JobRecord  *)
(* created under the first .dal carries a modifier: the last .pot read     *)
(* under that .dal before the record's companion, else the pending one     *)
(* (the last .pot before the first .dal).  A JobRecord of a later .dal     *)
(* carries no modifier or one of the .pot tokens of its own segment: the   *)
(* pending modifier is not carried over.                                   *)
(***************************************************************************)
FirstDal == MinOf(Positions(".dal"))

PendingPots == PotsBetween(0, FirstDal)

MolCount == Cardinality(Positions(".mol"))

\* the .dal the k-th JobRecord was created under, and the position it was
\* created at (the companion-less record is created after the last token)
JobPrimary(k) == IF k <= MolCount THEN PrimaryAt(NthMol(k)) ELSE MaxOf(Positions(".dal"))

JobPos(k) == IF k <= MolCount THEN NthMol(k) ELSE Len(tokens) + 1

C25_PendingModifier ==
    (DaltonResolved /\ Positions(".dal") # {} /\ PendingPots # {}) =>
        \A k \in 1..Len(jobs) :
            IF JobPrimary(k) = FirstDal
            THEN jobs[k][3] =
                   to_absolute_path(tokens[
                       IF PotsBetween(FirstDal, JobPos(k)) # {}
                       THEN MaxOf(PotsBetween(FirstDal, JobPos(k)))
                       ELSE MaxOf(PendingPots)])
            ELSE jobs[k][3] \in
                   {NoPath} \cup
                   {to_absolute_path(tokens[q]) :
                       q \in PotsBetween(JobPrimary(k), SegmentEnd(JobPrimary(k)))}

\* [modifier, primary, companion, primary with embedded geometry]
C25_Witness ==
    /\ DaltonResolved
    /\ tokens = <<Tok("p", ".pot"), Tok("b", ".dal"), Tok("x", ".mol"), Tok("a", ".dal")>>
    /\ Len(jobs) = 2
    /\ jobs[1][3] = to_absolute_path(Tok("p", ".pot"))
    /\ jobs[2][3] = NoPath

(***************************************************************************)
(* C26: within one invocation the effects (creating the output directory,  *)
(* writing the manifest, rotating backups, delivery) happen only after     *)
(* parsing, validation and resolution have all returned, and in the order  *)
(* directory, manifest, backups, delivery; an invocation that ended with a *)
(* usage error has had none of these effects and exits with status 1.      *)
(***************************************************************************)
Rank(e) ==
    CASE e = "mkdir" -> 1 [] e = "manifest" -> 2 [] e = "backup" -> 3 [] OTHER -> 4

C26_EffectsAfterResolution ==
    /\ effects # << >> => passed = {"parse", "validate", "resolve"}
    /\ \A i, j \in 1..Len(effects) : i < j => Rank(effects[i]) < Rank(effects[j])
    /\ main_outcome = "usage_error" => effects = << >> /\ exit_code = 1

C26_Witness ==
    /\ main_outcome = "returned"
    /\ effects = <<"mkdir", "manifest", "backup", "deliver">>
    /\ has_set_inputs
    /\ exit_code = 1

(***************************************************************************)
(* C27: a resolved Turbomole token stream: every control token is the      *)
(* control of at least one JobRecord (none is dropped silently), and the   *)
(* k-th JobRecord pairs the k-th coord token with the nearest control      *)
(* token before it.                                                        *)
(***************************************************************************)
TurbomoleResolved == workload = "turbomole" /\ ~manifest_file /\ outcome = "ok"

NthCoord(k) ==
    CHOOSE c \in Positions("coord") :
        Cardinality({n \in Positions("coord") : n <= c}) = k

ControlBefore(c) == MaxOf({d \in Positions("control") : d < c})

C27_ControlNeverDropped ==
    TurbomoleResolved =>
        /\ Len(jobs) = Cardinality(Positions("coord"))
        /\ \A k \in 1..Len(jobs) :
              jobs[k] = <<to_absolute_path(tokens[ControlBefore(NthCoord(k))]),
                          to_absolute_path(tokens[NthCoord(k)])>>
        /\ \A d \in Positions("control") :
              \E k \in 1..Len(jobs) : jobs[k][1] = to_absolute_path(tokens[d])

(***************************************************************************)
(* C28: Dalton manifest round trip.  Resolving the manifest that           *)
(* create_exec_manifest wrote for a JobSet (every line holds four fields)  *)
(* succeeds and gives the JobRecords of the manifest's lines, field by     *)
(* field, in the order of the lines, whichever of the companion, modifier  *)
(* and restart fields are empty.                                           *)
(***************************************************************************)
WrittenManifest ==
    /\ exec_manifest # << >>
    /\ \A k \in 1..Len(exec_manifest) : Len(exec_manifest[k]) = 4

ManifestRead == workload = "dalton" /\ manifest_file /\ jpc \in {"resolved", "done"}

C28_ManifestRoundTrip ==
    (WrittenManifest /\ ManifestRead) =>
        /\ outcome = "ok"
        /\ inputs = exec_manifest

(***************************************************************************)
(* C29: any two distinct tasks, of different jobs or of one array job, have *)
(* distinct scratch directories, and no task's cleanup removes a directory *)
(* another task is using: the scratch directory of every task between its  *)
(* setup and its cleanup exists.                                           *)
(***************************************************************************)
C29_ScratchNamespaced ==
    /\ \A u \in Units : \A v \in Units \ {u} :
          scratch_directory(tenv[u]) # scratch_directory(tenv[v])
    /\ \A u \in Units :
          tpc[u] = "running" => scratch_directory(tenv[u]) \in scratch_fs

\* a task of an array job has removed its scratch directory while another
\* task of the same job and a task of another job are still running
C29_Witness ==
    \E u \in Units : \E v \in Units \ {u} : \E w \in Units :
        /\ u[1] = v[1] /\ w[1] # u[1]
        /\ tenv[u].job_id = tenv[v].job_id
        /\ tpc[u] = "cleaned" /\ tpc[v] = "running" /\ tpc[w] = "running"

(***************************************************************************)
(* C30: two distinct JobRecords of one array JobSet never map to the same  *)
(* per-task log file: no two tasks of one array job whose manifest lines   *)
(* differ have their output redirected to the same file.                   *)
(***************************************************************************)
C30_LogFilesDistinct ==
    \A u \in Units : \A v \in Units \ {u} :
        (/\ u[1] = v[1]
         /\ tmanifest[u[1]][u[2]] # tmanifest[v[1]][v[2]]
         /\ log_file[u] # NoLog /\ log_file[v] # NoLog)
        => log_file[u] # log_file[v]

====
